---- MODULE Spec2Model ----
(***************************************************************************)
(* Model of the tokenization / merge-rule / co-occurrence pipeline of      *)
(* JapaneseWordCloudGUI (services/tokenization.py,                         *)
(* services/visualization.py and the GUI class of main.py).                *)
(*                                                                         *)
(* A token (surface form) is a Python str, modelled as a sequence of code  *)
(* points (naturals); SP is the whitespace code point.  Lists are          *)
(* sequences, so list order (rule insertion order, Counter insertion       *)
(* order, node insertion order) is kept.  Python indices are 0-based: a    *)
(* cursor i addresses element i + 1 of the TLA+ sequence.                  *)
(***************************************************************************)
EXTENDS Integers, Sequences, FiniteSets, TLC

VARIABLES
    \* ---- merge-rule engine (one call of apply_merge_rules_to_line /
    \*      apply_rules_to_tokens) ----
    impl,           \* "service" | "gui": which of the two twins is running
    tokens_line,    \* argument tokens_line
    merge_rules,    \* argument merge_rules / self.merge_rules (list of rules)
    rules_sorted,   \* local rules_sorted
    i,              \* local scan cursor i (0-based)
    out,            \* local out
    mpc,            \* position in the call: "entry" | "loop" | "done" | "idle"
    \* ---- co-occurrence network (one call of build_network_figure /
    \*      generate_network) ----
    tokens,                 \* argument tokens (flat token list)
    word_freq,              \* argument word_freq (token -> count): the vocabulary
    pre_tokens_lines,       \* argument / self.pre_tokens_lines (list of token lists)
    original_lines,         \* argument / self.original_lines (list of strings)
    window_mode,            \* "sliding" | "line"
    window_size,
    collapse_consecutive,
    dedup_pairs_per_line,
    self_loop_mode,         \* "remove" | "keep"
    edge_count,
    min_cooc,
    cooc_pairs,             \* local cooc_pairs (list of pairs)
    cooc_count,             \* local cooc_count: Counter items in insertion order
    G,                      \* local G: [nodes: list of nodes, weight: edge -> weight]
    npc,                    \* position in the call
    ret,                    \* what the caller gets: "pending", "None", "fig", or the
                            \* label the GUI shows instead of a figure
    \* ---- tokenization and filtering (TokenizationService.tokenize_text,
    \*      merge_lines; JapaneseTextAnalyzer.apply_merge_rules_and_update_edit_area).
    \*      tokens, word_freq, pre_tokens_lines and original_lines above are
    \*      also the fields of TokenizationResult / of the GUI object ----
    text,                   \* the input text, by what the analyzer makes of it:
                            \* [blank, lines]; lines[k] is the list of
                            \* <<surface, part of speech>> of raw line k
    stop_words,             \* argument stop_words / self.stop_words
    pos_cache,              \* TokenizationResult.pos_cache / self.pos_cache
    edit_area,              \* contents of the GUI's edit_area (a string)
    merged_lines,           \* merge_lines: first component of the result
    filtered_tokens,        \* merge_lines: second component of the result
    fpc,                    \* position: "start" | "tokenized" | "failed" | "merged" |
                            \* "applied" | "idle"
    mecab,                  \* self.mecab: the GUI's analyzer is available
    lexicon,                \* the analyzer, by the tag it gives a word parsed on its own
    tok_ret,                \* what tokenize_text hands back or shows: "pending",
                            \* "result", "info:done", or the error shown
    \* ---- the merge-rule editor of the GUI (add_merge_rule,
    \*      remove_selected_merge_rule) ----
    merge_seq_entry,        \* contents of merge_seq_entry (a string)
    merge_to_entry,         \* contents of merge_to_entry (a string)
    merge_len_var,          \* value of merge_len_var
    rule_msg,               \* the warning add_merge_rule has shown, "added", or "none"
    \* ---- the co-occurrence table of the GUI (show_cooccurrence_table) ----
    cooc_table              \* [shown, items]: whether the handler has run, and the
                            \* rows <<word1, word2, count>> it lists (none when
                            \* it shows a label instead)

mergeVars == <<tokens_line, merge_rules, rules_sorted, i, out, mpc>>

netArgs == <<tokens, word_freq, pre_tokens_lines, original_lines, window_mode,
             window_size, collapse_consecutive, dedup_pairs_per_line,
             self_loop_mode, edge_count, min_cooc>>

netVars == <<netArgs, cooc_pairs, cooc_count, G, npc, ret>>

filterVars == <<text, stop_words, pos_cache, edit_area, merged_lines, filtered_tokens, fpc,
                mecab, lexicon, tok_ret>>

ruleVars == <<merge_seq_entry, merge_to_entry, merge_len_var, rule_msg>>

vars == <<impl, mergeVars, netVars, filterVars, ruleVars, cooc_table>>

----------------------------------------------------------------------------
(* Bounds of the model                                                     *)

MaxLineLen  == 4     \* longest token line drawn as input of the merge engine
MaxRules    == 2     \* longest merge-rule list drawn as input
MaxCoocToks == 4     \* most tokens (over all lines) drawn as input of the extractor
MaxCoocLines == 2    \* most lines drawn as input of the extractor
MaxWindow   == 4     \* largest window size drawn
MaxRuns     == 3     \* most runs of equal pairs in a pair list drawn for the graph builder
MaxTextToks == 3     \* most surfaces (over all lines) of an input text drawn
MaxTextLines == 2    \* most lines of an input text drawn

----------------------------------------------------------------------------
(* Tokens                                                                  *)

SP == 0                         \* the space character
NL == 9                         \* the newline character

IsSpace(c) == c \in {SP, NL}     \* str.isspace

TokS == <<1>>                   \* a surface of one character

TokA == <<1, 1>>
TokB == <<1, 2>>
TokX == <<3, 3>>                \* replacement tokens of merge rules
TokY == <<3>>                   \* a replacement of one character

TokC == <<2, 1>>
TokD == <<2, 2>>

MergeTokens  == {TokA, TokB}
MergedTokens == {TokX, TokY}

SeqsUpTo(S, n) == UNION {[1..k -> S] : k \in 0..n}

Min2(a, b) == IF a <= b THEN a ELSE b
Max2(a, b) == IF a >= b THEN a ELSE b

----------------------------------------------------------------------------
(* Merge-rule engine                                                       *)

\* A rule as add_merge_rule builds it: {"len": n, "seq": seq, "merged": merged}
Rule(seq, merged) == [len |-> Len(seq), seq |-> seq, merged |-> merged]

\* The rules the inputs are drawn from: sequences of 2, 3 and 4 tokens that
\* overlap and prefix one another, and two pairs of rules with the same
\* sequence and different replacements.
RuleSeqs ==
    { <<TokA, TokB>>, <<TokB, TokA>>, <<TokA, TokB, TokA>>, <<TokB, TokA, TokB>>,
      <<TokA, TokB, TokA, TokB>> }

RuleUniverse ==
    {Rule(s, TokX) : s \in RuleSeqs}
        \cup {Rule(<<TokA, TokB>>, TokY), Rule(<<TokA, TokB, TokA>>, TokY)}

\* sorted(merge_rules, key=lambda r: r["len"], reverse=True): a stable sort,
\* rules of equal len keep their list order.
RECURSIVE InsertByLenDesc(_, _)
InsertByLenDesc(sorted, r) ==
    IF sorted = <<>> THEN <<r>>
    ELSE IF sorted[Len(sorted)].len >= r.len THEN Append(sorted, r)
    ELSE Append(InsertByLenDesc(SubSeq(sorted, 1, Len(sorted) - 1), r),
                sorted[Len(sorted)])

\* mutant of SortRules: the rule list is used in insertion order
SortRules_unsorted(rules) == rules

RECURSIVE SortRules(_)
SortRules(rules) ==
    IF rules = <<>> THEN <<>>
    ELSE InsertByLenDesc(SortRules(SubSeq(rules, 1, Len(rules) - 1)),
                         rules[Len(rules)])

\* i + n <= n_tokens and tuple(tokens_line[i:i + n]) == r["seq"]
MatchAt(line, pos, r) ==
    /\ pos + r.len <= Len(line)
    /\ SubSeq(line, pos + 1, pos + r.len) = r.seq

\* mutant of FirstMatch: the loop over the rules does not break at the first
\* match, the last matching rule is the one applied
FirstMatch_last(sorted, line, pos) ==
    LET hits == {k \in 1..Len(sorted) : MatchAt(line, pos, sorted[k])}
    IN IF hits = {} THEN 0 ELSE CHOOSE k \in hits : \A h \in hits : k >= h

\* for r in rules_sorted: ... break  -- index of the first matching rule, 0 if none
FirstMatch(sorted, line, pos) ==
    LET hits == {k \in 1..Len(sorted) : MatchAt(line, pos, sorted[k])}
    IN IF hits = {} THEN 0 ELSE CHOOSE k \in hits : \A h \in hits : k <= h

\* mutant of MergeLoopBody: after a match the cursor also skips the token
\* that follows the matched sequence
MergeLoopBody_overshoot(line, sorted, st) ==
    LET k == FirstMatch(sorted, line, st.i)
    IN IF k # 0
       THEN [i |-> st.i + sorted[k].len + 1, out |-> Append(st.out, sorted[k].merged)]
       ELSE [i |-> st.i + 1, out |-> Append(st.out, line[st.i + 1])]

\* One iteration of the while loop of apply_merge_rules_to_line:
\* st = [i, out] before the iteration, result after it.
MergeLoopBody(line, sorted, st) ==
    LET k == FirstMatch(sorted, line, st.i)
    IN IF k # 0
       THEN [i |-> st.i + sorted[k].len, out |-> Append(st.out, sorted[k].merged)]
       ELSE [i |-> st.i + 1, out |-> Append(st.out, line[st.i + 1])]

\* The same loop in JapaneseTextAnalyzer.apply_rules_to_tokens
GuiMergeLoopBody(line, sorted, st) ==
    LET k == FirstMatch(sorted, line, st.i)
    IN IF k # 0
       THEN [i |-> st.i + sorted[k].len, out |-> Append(st.out, sorted[k].merged)]
       ELSE [i |-> st.i + 1, out |-> Append(st.out, line[st.i + 1])]

\* the network variables while no network call is modelled
IdleNet ==
    /\ tokens = <<>> /\ word_freq = <<>> /\ pre_tokens_lines = <<>>
    /\ original_lines = <<>> /\ window_mode = "sliding" /\ window_size = 0
    /\ collapse_consecutive = FALSE /\ dedup_pairs_per_line = FALSE
    /\ self_loop_mode = "remove" /\ edge_count = 0 /\ min_cooc = 0
    /\ cooc_pairs = <<>> /\ cooc_count = <<>>
    /\ G = [nodes |-> <<>>, weight |-> <<>>] /\ npc = "idle" /\ ret = "pending"

\* the co-occurrence table before show_cooccurrence_table has run
IdleTable == cooc_table = [shown |-> FALSE, items |-> <<>>]

\* the merge-rule editor while it is not used: the widgets as they are built
IdleRules ==
    /\ merge_seq_entry = <<>> /\ merge_to_entry = <<>> /\ merge_len_var = 2
    /\ rule_msg = "none"

\* the tokenization variables while no tokenization call is modelled
IdleFilter ==
    /\ text = [blank |-> TRUE, lines |-> << <<>> >>] /\ stop_words = {}
    /\ pos_cache = <<>> /\ edit_area = <<>> /\ merged_lines = <<>>
    /\ filtered_tokens = <<>> /\ fpc = "idle"
    /\ mecab = TRUE /\ lexicon = <<>> /\ tok_ret = "pending"
    /\ IdleRules

InitMerge ==
    /\ IdleTable
    /\ IdleNet /\ IdleFilter
    /\ impl \in {"service", "gui"}
    /\ tokens_line \in SeqsUpTo(MergeTokens, MaxLineLen)
    /\ merge_rules \in SeqsUpTo(RuleUniverse, MaxRules)
    /\ rules_sorted = <<>>
    /\ i = 0
    /\ out = <<>>
    /\ mpc = "entry"

\* TokenizationService.apply_merge_rules_to_line, up to the loop
MergeEnter ==
    /\ mpc = "entry" /\ impl = "service"
    /\ rules_sorted' = SortRules(merge_rules)
    /\ out' = <<>>
    /\ i' = 0
    /\ mpc' = "loop"
    /\ UNCHANGED <<impl, cooc_table, tokens_line, merge_rules, netVars, filterVars, ruleVars>>

\* JapaneseTextAnalyzer.apply_rules_to_tokens, up to the loop
GuiMergeEnter ==
    /\ mpc = "entry" /\ impl = "gui"
    /\ IF tokens_line = <<>>
       THEN /\ mpc' = "done"
            /\ UNCHANGED <<rules_sorted, out, i>>
       ELSE /\ rules_sorted' = SortRules(merge_rules)
            /\ out' = <<>>
            /\ i' = 0
            /\ mpc' = "loop"
    /\ UNCHANGED <<impl, cooc_table, tokens_line, merge_rules, netVars, filterVars, ruleVars>>

\* one iteration of "while i < n_tokens"
MergeIter ==
    /\ mpc = "loop" /\ i < Len(tokens_line)
    /\ LET st == IF impl = "service"
                 THEN MergeLoopBody(tokens_line, rules_sorted, [i |-> i, out |-> out])
                 ELSE GuiMergeLoopBody(tokens_line, rules_sorted, [i |-> i, out |-> out])
       IN /\ i' = st.i
          /\ out' = st.out
    /\ UNCHANGED <<impl, cooc_table, tokens_line, merge_rules, rules_sorted, mpc, netVars, filterVars, ruleVars>>

\* loop exit and "return out"
MergeReturn ==
    /\ mpc = "loop" /\ ~(i < Len(tokens_line))
    /\ mpc' = "done"
    /\ UNCHANGED <<impl, cooc_table, tokens_line, merge_rules, rules_sorted, i, out, netVars, filterVars, ruleVars>>

NextMerge == MergeEnter \/ GuiMergeEnter \/ MergeIter \/ MergeReturn

SpecMerge == InitMerge /\ [][NextMerge]_vars

\* indices of the rules of merge_rules that match tokens_line at position pos
MatchingRules(pos) ==
    {k \in 1..Len(merge_rules) : MatchAt(tokens_line, pos, merge_rules[k])}

LongestMatchLen(pos) ==
    CHOOSE n \in {merge_rules[k].len : k \in MatchingRules(pos)} :
        \A k \in MatchingRules(pos) : merge_rules[k].len <= n

\* C1: in every loop iteration of apply_merge_rules_to_line and of
\* apply_rules_to_tokens, when rules of different lengths match at the scan
\* position, the replacement of a rule of the greatest matching length is
\* emitted and the cursor advances by that length (so no shorter rule is
\* applied there), whatever the order of the rule list.
C1_LongestMatchWins ==
    [][ (mpc = "loop" /\ i < Len(tokens_line)
            /\ \E a, b \in MatchingRules(i) : merge_rules[a].len # merge_rules[b].len)
        => /\ i' = i + LongestMatchLen(i)
           /\ \E k \in MatchingRules(i) :
                 /\ merge_rules[k].len = LongestMatchLen(i)
                 /\ out' = Append(out, merge_rules[k].merged) ]_vars

\* C1 witness: the shorter rule comes first in the list, both match at
\* position 0 of [A,B,A], and the call has returned the longer rule's [Y].
C1_Witness ==
    /\ mpc = "done"
    /\ merge_rules = << Rule(<<TokA, TokB>>, TokX), Rule(<<TokA, TokB, TokA>>, TokY) >>
    /\ tokens_line = <<TokA, TokB, TokA>>
    /\ out = <<TokY>>

----------------------------------------------------------------------------
(* Strings and pairs                                                       *)

\* Python's str comparison a < b: code point by code point, a proper prefix first
RECURSIVE StrLess(_, _)
StrLess(a, b) ==
    IF b = <<>> THEN FALSE
    ELSE IF a = <<>> THEN TRUE
    ELSE IF a[1] # b[1] THEN a[1] < b[1]
    ELSE StrLess(Tail(a), Tail(b))

\* mutant of SortedPair: the pair is kept in order of occurrence
SortedPair_unsorted(a, b) == <<a, b>>

\* tuple(sorted([a, b]))
SortedPair(a, b) == IF StrLess(b, a) THEN <<b, a>> ELSE <<a, b>>

\* " ".join(toks)
RECURSIVE Join(_)
Join(toks) ==
    IF toks = <<>> THEN <<>>
    ELSE IF Len(toks) = 1 THEN toks[1]
    ELSE toks[1] \o <<SP>> \o Join(Tail(toks))

\* str.split(): the maximal runs of non-whitespace characters, in order.
\* cur is the run being read, acc the runs already closed.
RECURSIVE SplitFrom(_, _, _)
SplitFrom(str, cur, acc) ==
    IF str = <<>> THEN (IF cur = <<>> THEN acc ELSE Append(acc, cur))
    ELSE IF IsSpace(str[1])
         THEN SplitFrom(Tail(str), <<>>, IF cur = <<>> THEN acc ELSE Append(acc, cur))
         ELSE SplitFrom(Tail(str), Append(cur, str[1]), acc)

Split(str) == SplitFrom(str, <<>>, <<>>)

\* str.strip() == "" : the string holds whitespace only
IsBlank(str) == \A k \in 1..Len(str) : IsSpace(str[k])

----------------------------------------------------------------------------
(* Co-occurrence extractor                                                 *)

InVocab(t, wf) == t \in DOMAIN wf

\* VisualizationService.build_network_figure._collapse_consecutive
\* (prev is None before the first item; no token equals None)
RECURSIVE CollapseFrom(_, _, _)
CollapseFrom(seq, prev, result) ==
    IF seq = <<>> THEN result
    ELSE CollapseFrom(Tail(seq), <<seq[1]>>,
                      IF <<seq[1]>> # prev THEN Append(result, seq[1]) ELSE result)

CollapseConsecutive(seq) == CollapseFrom(seq, <<>>, <<>>)

\* JapaneseTextAnalyzer._collapse_consecutive
RECURSIVE GuiCollapseFrom(_, _)
GuiCollapseFrom(rest, o) ==
    IF rest = <<>> THEN o
    ELSE GuiCollapseFrom(Tail(rest),
                         IF rest[1] = o[Len(o)] THEN o ELSE Append(o, rest[1]))

GuiCollapseConsecutive(seq) ==
    IF seq = <<>> THEN <<>> ELSE GuiCollapseFrom(Tail(seq), <<seq[1]>>)

Collapse(which, seq) ==
    IF which = "service" THEN CollapseConsecutive(seq) ELSE GuiCollapseConsecutive(seq)

\* mutant of SlidingUpper: the window reaches one position too far
SlidingUpper_offByOne(p, w, n) == Min2(p + w + 1, n)

\* the bound of the inner range: min(i + window_size, len(tokens_used))
SlidingUpper(p, w, n) == Min2(p + w, n)

\* The two nested loops of the sliding branch; p, q are the 0-based i, j.
RECURSIVE SlidingLoop(_, _, _, _, _, _)
SlidingLoop(t, wf, w, p, q, acc) ==
    IF p >= Len(t) THEN acc
    ELSE IF ~InVocab(t[p + 1], wf) THEN SlidingLoop(t, wf, w, p + 1, p + 2, acc)
    ELSE IF q >= SlidingUpper(p, w, Len(t)) THEN SlidingLoop(t, wf, w, p + 1, p + 2, acc)
    ELSE IF ~InVocab(t[q + 1], wf) THEN SlidingLoop(t, wf, w, p, q + 1, acc)
    ELSE SlidingLoop(t, wf, w, p, q + 1, Append(acc, SortedPair(t[p + 1], t[q + 1])))

\* window_mode == "sliding"
SlidingPairs(which, toks, wf, w, collapse) ==
    LET tokens_used == IF collapse THEN Collapse(which, toks) ELSE toks
    IN SlidingLoop(tokens_used, wf, w, 0, 1, <<>>)

\* mutant of LineUpper: line mode bounded by the sliding window
LineUpper_windowed(p, w, n) == Min2(p + w, n)

\* the bound of the inner range in line mode: len(line_tokens)
LineUpper(p, w, n) == n

\* mutant of Unseen: the per-line dedup test is dropped
Unseen_always(pair, seen) == TRUE

\* pair not in seen_pairs
Unseen(pair, seen) == pair \notin seen

\* The pair loops over one line of the pre_tokens_lines branch; st = [acc, seen]
RECURSIVE PreLineLoop(_, _, _, _, _, _)
PreLineLoop(t, w, dedup, p, q, st) ==
    IF p >= Len(t) THEN st
    ELSE IF q >= LineUpper(p, w, Len(t)) THEN PreLineLoop(t, w, dedup, p + 1, p + 2, st)
    ELSE LET pair == SortedPair(t[p + 1], t[q + 1])
         IN IF dedup
            THEN IF Unseen(pair, st.seen)
                 THEN PreLineLoop(t, w, dedup, p, q + 1,
                          [acc |-> Append(st.acc, pair), seen |-> st.seen \cup {pair}])
                 ELSE PreLineLoop(t, w, dedup, p, q + 1, st)
            ELSE PreLineLoop(t, w, dedup, p, q + 1,
                             [acc |-> Append(st.acc, pair), seen |-> st.seen])

\* line_tokens of the pre_tokens_lines branch: vocabulary first, then collapse
PreLineTokens(which, surfaces, wf, collapse) ==
    LET line_tokens == SelectSeq(surfaces, LAMBDA s : InVocab(s, wf))
    IN IF collapse THEN Collapse(which, line_tokens) ELSE line_tokens

\* for surfaces in pre_tokens_lines: ...   (acc is cooc_pairs so far)
RECURSIVE PreLinesLoop(_, _, _, _, _, _, _)
PreLinesLoop(which, lines, wf, w, collapse, dedup, acc) ==
    IF lines = <<>> THEN acc
    ELSE IF lines[1] = <<>>
         THEN PreLinesLoop(which, Tail(lines), wf, w, collapse, dedup, acc)
         ELSE PreLinesLoop(which, Tail(lines), wf, w, collapse, dedup,
                  PreLineLoop(PreLineTokens(which, lines[1], wf, collapse), w, dedup,
                              0, 1, [acc |-> acc, seen |-> {}]).acc)

\* the concatenation of the lines
RECURSIVE FlattenLines(_)
FlattenLines(lines) ==
    IF lines = <<>> THEN <<>> ELSE lines[1] \o FlattenLines(Tail(lines))

\* mutant of PreLinePairs: the lines are paired as one concatenated line
PreLinePairs_acrossLines(which, lines, wf, w, collapse, dedup) ==
    PreLinesLoop(which, <<FlattenLines(lines)>>, wf, w, collapse, dedup, <<>>)

\* mutant of PreLinePairs: seen_pairs is not reset for each line
RECURSIVE SharedSeenLoop(_, _, _, _, _, _, _)
SharedSeenLoop(which, lines, wf, w, collapse, dedup, st) ==
    IF lines = <<>> THEN st
    ELSE SharedSeenLoop(which, Tail(lines), wf, w, collapse, dedup,
             PreLineLoop(PreLineTokens(which, lines[1], wf, collapse), w, dedup,
                         0, 1, st))

PreLinePairs_sharedSeen(which, lines, wf, w, collapse, dedup) ==
    SharedSeenLoop(which, lines, wf, w, collapse, dedup, [acc |-> <<>>, seen |-> {}]).acc

\* the pre_tokens_lines branch of line mode
PreLinePairs(which, lines, wf, w, collapse, dedup) ==
    PreLinesLoop(which, lines, wf, w, collapse, dedup, <<>>)

\* The pair loops over one line of the original_lines branch: the vocabulary
\* test is made inside the loops, on the collapsed line.
RECURSIVE FallbackLineLoop(_, _, _, _, _, _, _)
FallbackLineLoop(t, wf, w, dedup, p, q, st) ==
    IF p >= Len(t) THEN st
    ELSE IF ~InVocab(t[p + 1], wf) THEN FallbackLineLoop(t, wf, w, dedup, p + 1, p + 2, st)
    ELSE IF q >= LineUpper(p, w, Len(t))
         THEN FallbackLineLoop(t, wf, w, dedup, p + 1, p + 2, st)
    ELSE IF ~InVocab(t[q + 1], wf) THEN FallbackLineLoop(t, wf, w, dedup, p, q + 1, st)
    ELSE LET pair == SortedPair(t[p + 1], t[q + 1])
         IN IF dedup
            THEN IF Unseen(pair, st.seen)
                 THEN FallbackLineLoop(t, wf, w, dedup, p, q + 1,
                          [acc |-> Append(st.acc, pair), seen |-> st.seen \cup {pair}])
                 ELSE FallbackLineLoop(t, wf, w, dedup, p, q + 1, st)
            ELSE FallbackLineLoop(t, wf, w, dedup, p, q + 1,
                                  [acc |-> Append(st.acc, pair), seen |-> st.seen])

\* line_tokens of the original_lines branch: split, then collapse
FallbackLineTokens(which, line, collapse) ==
    IF collapse THEN Collapse(which, Split(line)) ELSE Split(line)

\* for line in original_lines: ...
RECURSIVE FallbackLinesLoop(_, _, _, _, _, _, _)
FallbackLinesLoop(which, lines, wf, w, collapse, dedup, acc) ==
    IF lines = <<>> THEN acc
    ELSE IF IsBlank(lines[1])
         THEN FallbackLinesLoop(which, Tail(lines), wf, w, collapse, dedup, acc)
         ELSE FallbackLinesLoop(which, Tail(lines), wf, w, collapse, dedup,
                  FallbackLineLoop(FallbackLineTokens(which, lines[1], collapse), wf, w,
                                   dedup, 0, 1, [acc |-> acc, seen |-> {}]).acc)

\* the original_lines branch of line mode
FallbackLinePairs(which, lines, wf, w, collapse, dedup) ==
    FallbackLinesLoop(which, lines, wf, w, collapse, dedup, <<>>)

\* Counter(cooc_pairs): the items in order of first insertion, as <<key, count>>
RECURSIVE CounterFrom(_, _)
CounterFrom(seq, items) ==
    IF seq = <<>> THEN items
    ELSE LET hit == {k \in 1..Len(items) : items[k][1] = seq[1]}
         IN CounterFrom(Tail(seq),
                IF hit = {} THEN Append(items, <<seq[1], 1>>)
                ELSE [k \in 1..Len(items) |->
                         IF k \in hit THEN <<items[k][1], items[k][2] + 1>> ELSE items[k]])

\* mutant of CounterOf: pairs are collected as a set, each counted once
CounterOf_presence(seq) ==
    LET c == CounterFrom(seq, <<>>) IN [k \in 1..Len(c) |-> <<c[k][1], 1>>]

CounterOf(seq) == CounterFrom(seq, <<>>)

\* mutant of MeetsMinCooc: the threshold is taken strictly
MeetsMinCooc_strict(c, m) == c > m

\* c >= min_cooc
MeetsMinCooc(c, m) == c >= m

\* Counter({p: c for p, c in cooc_count.items() if c >= min_cooc})
FilterMinCooc(items, m) == SelectSeq(items, LAMBDA it : MeetsMinCooc(it[2], m))

----------------------------------------------------------------------------
(* The extraction steps of build_network_figure / generate_network         *)

CoocTokens == {TokA, TokB}

\* the lists of at most l lines holding at most n tokens together
RECURSIVE LinesOf(_, _)
LinesOf(n, l) ==
    IF l = 0 THEN {<<>>}
    ELSE {<<>>} \cup UNION { {<<f>> \o r : r \in LinesOf(n - Len(f), l - 1)} :
                              f \in SeqsUpTo(CoocTokens, n) }

\* the vocabularies drawn: TokB is in the vocabulary or not
Vocabularies == {[t \in V |-> 1] : V \in {{TokA}, {TokA, TokB}}}

MinCoocValues == {1, 2}

IdleMerge ==
    /\ tokens_line = <<>> /\ merge_rules = <<>> /\ rules_sorted = <<>>
    /\ i = 0 /\ out = <<>> /\ mpc = "idle"

InitCooc ==
    /\ IdleTable
    /\ IdleMerge /\ IdleFilter
    /\ impl \in {"service", "gui"}
    /\ word_freq \in Vocabularies
    /\ collapse_consecutive \in BOOLEAN
    /\ min_cooc \in MinCoocValues
    /\ self_loop_mode = "remove" /\ edge_count = 0
    /\ \/ /\ window_mode = "sliding"
          /\ window_size \in 0..MaxWindow
          /\ tokens \in SeqsUpTo(CoocTokens, MaxCoocToks)
          /\ pre_tokens_lines = <<>> /\ original_lines = <<>>
          /\ dedup_pairs_per_line = FALSE
       \/ /\ window_mode = "line"
          /\ window_size \in {1, MaxWindow}
          /\ tokens = <<>>
          /\ dedup_pairs_per_line \in BOOLEAN
          /\ \E lines \in LinesOf(MaxCoocToks, MaxCoocLines) :
                \/ pre_tokens_lines = lines /\ original_lines = <<>>
                \/ /\ pre_tokens_lines = <<>>
                   /\ original_lines = [k \in 1..Len(lines) |-> Join(lines[k])]
    /\ cooc_pairs = <<>> /\ cooc_count = <<>>
    /\ G = [nodes |-> <<>>, weight |-> <<>>]
    /\ npc = "extract" /\ ret = "pending"

\* if window_mode == "sliding": ...
ExtractSliding ==
    /\ npc = "extract" /\ window_mode = "sliding"
    /\ cooc_pairs' = SlidingPairs(impl, tokens, word_freq, window_size, collapse_consecutive)
    /\ npc' = "count"
    /\ UNCHANGED <<impl, cooc_table, mergeVars, netArgs, cooc_count, G, ret, filterVars, ruleVars>>

\* else: if pre_tokens_lines: ...
ExtractLinesPre ==
    /\ npc = "extract" /\ window_mode # "sliding" /\ pre_tokens_lines # <<>>
    /\ cooc_pairs' = PreLinePairs(impl, pre_tokens_lines, word_freq, window_size,
                                  collapse_consecutive, dedup_pairs_per_line)
    /\ npc' = "count"
    /\ UNCHANGED <<impl, cooc_table, mergeVars, netArgs, cooc_count, G, ret, filterVars, ruleVars>>

\* else: for line in original_lines: ...
ExtractLinesFallback ==
    /\ npc = "extract" /\ window_mode # "sliding" /\ pre_tokens_lines = <<>>
    /\ cooc_pairs' = FallbackLinePairs(impl, original_lines, word_freq, window_size,
                                       collapse_consecutive, dedup_pairs_per_line)
    /\ npc' = "count"
    /\ UNCHANGED <<impl, cooc_table, mergeVars, netArgs, cooc_count, G, ret, filterVars, ruleVars>>

\* cooc_count = Counter(cooc_pairs), then the min_cooc filter
CountPairs ==
    /\ npc = "count"
    /\ cooc_count' = FilterMinCooc(CounterOf(cooc_pairs), min_cooc)
    /\ npc' = "build"
    /\ UNCHANGED <<impl, cooc_table, mergeVars, netArgs, cooc_pairs, G, ret, filterVars, ruleVars>>

NextCooc == ExtractSliding \/ ExtractLinesPre \/ ExtractLinesFallback \/ CountPairs

SpecCooc == InitCooc /\ [][NextCooc]_vars

----------------------------------------------------------------------------
(* Properties of the extractor (C4 - C8)                                   *)

\* number of occurrences of x in the list seq
Occ(seq, x) == Cardinality({k \in DOMAIN seq : seq[k] = x})

RECURSIVE SumSeq(_)
SumSeq(ns) == IF ns = <<>> THEN 0 ELSE ns[1] + SumSeq(Tail(ns))

\* seq without the elements equal to their predecessor, stated by positions
RunHeads(seq) ==
    LET idx == {k \in 1..Len(seq) : k = 1 \/ seq[k] # seq[k - 1]}
    IN [j \in 1..Cardinality(idx) |->
           seq[CHOOSE k \in idx : Cardinality({m \in idx : m <= k}) = j]]

OptCollapsed(seq) == IF collapse_consecutive THEN RunHeads(seq) ELSE seq

InVocabulary(seq) == SelectSeq(seq, LAMBDA t : t \in DOMAIN word_freq)

AllPairs == CoocTokens \X CoocTokens

\* number of position pairs a < b of q, at most `reach` apart, whose two tokens
\* are in the vocabulary and are the two tokens of the canonical pair p
PosCount(q, p, reach) ==
    IF StrLess(p[2], p[1]) THEN 0
    ELSE Cardinality({ab \in (1..Len(q)) \X (1..Len(q)) :
                         /\ ab[1] < ab[2] /\ ab[2] < ab[1] + reach
                         /\ q[ab[1]] \in DOMAIN word_freq
                         /\ q[ab[2]] \in DOMAIN word_freq
                         /\ {q[ab[1]], q[ab[2]]} = {p[1], p[2]}})

Unbounded == MaxCoocToks + 2

\* the token lists of the lines read in line mode, before any restriction
RawLines ==
    IF pre_tokens_lines # <<>> THEN pre_tokens_lines
    ELSE [l \in 1..Len(original_lines) |-> Split(original_lines[l])]

\* the qualifying token sequence of each line, as the branch taken forms it
QualifyingLines ==
    IF pre_tokens_lines # <<>>
    THEN [l \in 1..Len(pre_tokens_lines) |-> OptCollapsed(InVocabulary(pre_tokens_lines[l]))]
    ELSE [l \in 1..Len(original_lines) |->
             InVocabulary(OptCollapsed(Split(original_lines[l])))]

Extracted == npc \in {"count", "build"}

\* C4: in line mode every emitted occurrence of a pair comes from two
\* positions i < j of one and the same line (both branches): a pair never
\* occurs more often than there are such position pairs within single lines.
C4_LineIsolation ==
    (Extracted /\ window_mode = "line")
        => \A p \in AllPairs :
              Occ(cooc_pairs, p)
                  <= SumSeq([l \in 1..Len(RawLines) |-> PosCount(RawLines[l], p, Unbounded)])

\* C4 witness: the two non-empty lines [A,A] and [B,B] gave the pairs (A,A)
\* and (B,B), and no pair (A,B) across the line boundary.
C4_Witness ==
    /\ Extracted /\ window_mode = "line"
    /\ pre_tokens_lines = << <<TokA, TokA>>, <<TokB, TokB>> >>
    /\ DOMAIN word_freq = {TokA, TokB}
    /\ cooc_pairs = << <<TokA, TokA>>, <<TokB, TokB>> >>

\* C5: in sliding mode the emitted multiset is exactly one canonical pair per
\* index pair i < j < i + W of the (optionally collapsed) token list with both
\* tokens in the vocabulary; W <= 1 yields no pairs.
C5_SlidingExact ==
    (Extracted /\ window_mode = "sliding")
        => /\ \A p \in AllPairs :
                 Occ(cooc_pairs, p) = PosCount(OptCollapsed(tokens), p, window_size)
           /\ (window_size <= 1 => cooc_pairs = <<>>)

\* C5 witness: [A,B,A] with B outside the vocabulary and W = 3: B occupies a
\* window position and the one pair is (A,A) from positions 0 and 2.
C5_Witness ==
    /\ Extracted /\ window_mode = "sliding" /\ window_size = 3
    /\ tokens = <<TokA, TokB, TokA>> /\ DOMAIN word_freq = {TokA}
    /\ cooc_pairs = << <<TokA, TokA>> >>

\* C6: in line mode without per-line dedup a line with n qualifying tokens
\* contributes one pair occurrence for every i < j, n(n-1)/2 in all, whatever
\* the window size.
C6_LineAllPairs ==
    (Extracted /\ window_mode = "line" /\ ~dedup_pairs_per_line)
        => /\ \A p \in AllPairs :
                 Occ(cooc_pairs, p)
                     = SumSeq([l \in 1..Len(QualifyingLines) |->
                                  PosCount(QualifyingLines[l], p, Unbounded)])
           /\ Len(cooc_pairs)
                 = SumSeq([l \in 1..Len(QualifyingLines) |->
                     (Len(QualifyingLines[l]) * (Len(QualifyingLines[l]) - 1)) \div 2])

\* C6 witness: the line [A,B,A] with vocabulary {A,B}, window size 1, counted
\* as {(A,B): 2, (A,A): 1}.
C6_Witness ==
    /\ npc = "build" /\ window_mode = "line" /\ ~dedup_pairs_per_line
    /\ ~collapse_consecutive /\ window_size = 1
    /\ pre_tokens_lines = << <<TokA, TokB, TokA>> >> /\ DOMAIN word_freq = {TokA, TokB}
    /\ cooc_count = << <<<<TokA, TokB>>, 2>>, <<<<TokA, TokA>>, 1>> >>

\* the number of lines in which pair p occurs at least once
LinesWith(p) ==
    Cardinality({l \in 1..Len(QualifyingLines) :
                    PosCount(QualifyingLines[l], p, Unbounded) >= 1})

\* C7: in line mode with dedupPerLine the count of a pair is the number of
\* lines in which it occurs at least once, and so at most the number of lines.
C7_DedupPerLine ==
    (Extracted /\ window_mode = "line" /\ dedup_pairs_per_line)
        => /\ \A p \in AllPairs :
                 /\ Occ(cooc_pairs, p) = LinesWith(p)
                 /\ Occ(cooc_pairs, p) <= Len(RawLines)
           /\ \A k \in 1..Len(cooc_count) :
                 cooc_count[k][2] = LinesWith(cooc_count[k][1])

\* C7 witness: (A,A) occurs three times in the first of two lines and not in
\* the second, and is counted once.
C7_Witness ==
    /\ npc = "build" /\ window_mode = "line" /\ dedup_pairs_per_line
    /\ ~collapse_consecutive /\ min_cooc = 1
    /\ pre_tokens_lines = << <<TokA, TokA, TokA>>, <<TokA>> >>
    /\ cooc_count = << <<<<TokA, TokA>>, 1>> >>

\* C8: every pair emitted and every key of the pair-count table is sorted
\* (never (x,y) with y < x), in every mode, so the two orders of adjacency of
\* two tokens meet in one key.
C8_CanonicalKeys ==
    /\ \A k \in 1..Len(cooc_pairs) : ~StrLess(cooc_pairs[k][2], cooc_pairs[k][1])
    /\ \A k \in 1..Len(cooc_count) : ~StrLess(cooc_count[k][1][2], cooc_count[k][1][1])
    /\ \A k, m \in 1..Len(cooc_count) :
          {cooc_count[k][1][1], cooc_count[k][1][2]}
              = {cooc_count[m][1][1], cooc_count[m][1][2]} => k = m

\* C8 witness: in [B,A,B] the adjacency (B,A) and the adjacency (A,B) are
\* counted under the one key (A,B).
C8_Witness ==
    /\ npc = "build" /\ window_mode = "sliding" /\ window_size = 2
    /\ tokens = <<TokB, TokA, TokB>> /\ DOMAIN word_freq = {TokA, TokB}
    /\ cooc_count = << <<<<TokA, TokB>>, 2>> >>

----------------------------------------------------------------------------
(* Co-occurrence graph builder                                             *)

\* A graph is [nodes, weight]: nodes is the list of nodes in insertion order,
\* weight maps each edge, the set {u, v} of its end points (one element for a
\* self-loop), to its weight attribute.
EmptyGraph == [nodes |-> <<>>, weight |-> <<>>]

NodeSet(g) == {g.nodes[k] : k \in 1..Len(g.nodes)}

EdgeSet(g) == DOMAIN g.weight

AddNode(nodes, n) ==
    IF \E k \in 1..Len(nodes) : nodes[k] = n THEN nodes ELSE Append(nodes, n)

\* G.add_edge(u, v, weight=w)
AddEdge(g, u, v, w) ==
    [nodes  |-> AddNode(AddNode(g.nodes, u), v),
     weight |-> [e \in EdgeSet(g) \cup {{u, v}} |-> IF e = {u, v} THEN w ELSE g.weight[e]]]

\* sorted(items, key=count, reverse=True): stable, equal counts keep their order
RECURSIVE InsertByCountDesc(_, _)
InsertByCountDesc(sorted, it) ==
    IF sorted = <<>> THEN <<it>>
    ELSE IF sorted[Len(sorted)][2] >= it[2] THEN Append(sorted, it)
    ELSE Append(InsertByCountDesc(SubSeq(sorted, 1, Len(sorted) - 1), it),
                sorted[Len(sorted)])

RECURSIVE SortByCountDesc(_)
SortByCountDesc(items) ==
    IF items = <<>> THEN <<>>
    ELSE InsertByCountDesc(SortByCountDesc(SubSeq(items, 1, Len(items) - 1)),
                           items[Len(items)])

\* mutant of MostCommon: every item is returned, whatever n
MostCommon_all(items, n) == SortByCountDesc(items)

\* cooc_count.most_common(n): the n items of highest count (none for n <= 0)
MostCommon(items, n) ==
    SubSeq(SortByCountDesc(items), 1, Min2(Max2(n, 0), Len(items)))

\* mutant of AddTopEdges: a self-pair is added as an edge whatever the policy
RECURSIVE AddTopEdges_keepLoops(_, _, _, _)
AddTopEdges_keepLoops(g, top, loops, m) ==
    IF top = <<>> THEN g
    ELSE IF top[1][2] < m THEN AddTopEdges_keepLoops(g, Tail(top), loops, m)
    ELSE AddTopEdges_keepLoops(AddEdge(g, top[1][1][1], top[1][1][2], top[1][2]),
                               Tail(top), loops, m)

\* the loop that adds the edges of the top pairs to G
RECURSIVE AddTopEdges(_, _, _, _)
AddTopEdges(g, top, loops, m) ==
    IF top = <<>> THEN g
    ELSE LET word1 == top[1][1][1]
             word2 == top[1][1][2]
             count == top[1][2]
         IN IF word1 = word2 /\ loops = "remove" THEN AddTopEdges(g, Tail(top), loops, m)
            ELSE IF count < m THEN AddTopEdges(g, Tail(top), loops, m)
            ELSE AddTopEdges(AddEdge(g, word1, word2, count), Tail(top), loops, m)

\* the nodes reachable from the nodes of S
RECURSIVE ReachFrom(_, _)
ReachFrom(g, S) ==
    LET N == S \cup {v \in NodeSet(g) : \E u \in S : {u, v} \in EdgeSet(g)}
    IN IF N = S THEN S ELSE ReachFrom(g, N)

\* nx.is_connected(G), for a graph with at least one node
IsConnected(g) == ReachFrom(g, {g.nodes[1]}) = NodeSet(g)

\* nx.connected_components(G): the components in order of their first node
RECURSIVE ComponentsFrom(_, _, _, _)
ComponentsFrom(g, rest, seen, acc) ==
    IF rest = <<>> THEN acc
    ELSE IF rest[1] \in seen THEN ComponentsFrom(g, Tail(rest), seen, acc)
    ELSE LET c == ReachFrom(g, {rest[1]})
         IN ComponentsFrom(g, Tail(rest), seen \cup c, Append(acc, c))

ConnectedComponents(g) == ComponentsFrom(g, g.nodes, {}, <<>>)

\* max(nx.connected_components(G), key=len): the first of the largest ones
LargestCC(g) ==
    LET cs == ConnectedComponents(g)
        k  == CHOOSE a \in 1..Len(cs) :
                 /\ \A b \in 1..Len(cs) : Cardinality(cs[b]) <= Cardinality(cs[a])
                 /\ \A b \in 1..(a - 1) : Cardinality(cs[b]) < Cardinality(cs[a])
    IN cs[k]

\* G.subgraph(S).copy()
Subgraph(g, S) ==
    [nodes  |-> SelectSeq(g.nodes, LAMBDA n : n \in S),
     weight |-> [e \in {d \in EdgeSet(g) : d \subseteq S} |-> g.weight[e]]]

\* if not nx.is_connected(G): G = G.subgraph(largest_cc).copy()
KeepLargestComponent(g) == IF ~IsConnected(g) THEN Subgraph(g, LargestCC(g)) ELSE g

MaxWeight(g) ==
    CHOOSE w \in {g.weight[e] : e \in EdgeSet(g)} : \A e \in EdgeSet(g) : g.weight[e] <= w

\* mutant of MinWeight: a tenth of the maximal weight instead of a fifth
MinWeight_tenth(g) == Max2(1, MaxWeight(g) \div 10)

\* min_weight = max(1, max_weight_val // 5)
MinWeight(g) == Max2(1, MaxWeight(g) \div 5)

\* nx.Graph([(u, v, d) for u, v, d in G.edges(data=True) if d["weight"] >= min_weight]):
\* a new graph of the kept edges; its nodes are the end points of kept edges
\* (their order is not observed by the steps that follow).
EdgesFrom(g, keep) ==
    [nodes  |-> SelectSeq(g.nodes, LAMBDA n : \E e \in keep : n \in e),
     weight |-> [e \in keep |-> g.weight[e]]]

\* if len(G.edges()) > 0: ... drop the edges below min_weight
PruneWeakEdges(g) ==
    IF Cardinality(EdgeSet(g)) > 0
    THEN EdgesFrom(g, {e \in EdgeSet(g) : g.weight[e] >= MinWeight(g)})
    ELSE g

\* mutant of TooSmall: the last gate only rejects the empty graph
TooSmall_empty(g) == Len(g.nodes) < 1

\* len(G.nodes()) < 2
TooSmall(g) == Len(g.nodes) < 2


----------------------------------------------------------------------------
(* The graph steps of build_network_figure / generate_network              *)

\* Pair lists drawn for the graph builder: runs of equal canonical pairs over
\* the path A - B - C - D with self-pairs at A and B.  Any list of canonical
\* pairs is an extraction result (line mode, one two-token line per pair).
GraphPairs ==
    { <<TokA, TokA>>, <<TokA, TokB>>, <<TokB, TokB>>, <<TokB, TokC>>, <<TokC, TokD>> }

RunLengths == {1, 10}

EdgeCounts == {1, 2, 3}

Repeat(x, n) == [k \in 1..n |-> x]

RECURSIVE Unroll(_)
Unroll(runs) ==
    IF runs = <<>> THEN <<>>
    ELSE Repeat(runs[1][1], runs[1][2]) \o Unroll(Tail(runs))

InitGraph ==
    /\ IdleTable
    /\ IdleMerge /\ IdleFilter
    /\ impl \in {"service", "gui"}
    /\ tokens = <<>> /\ word_freq = <<>> /\ pre_tokens_lines = <<>>
    /\ original_lines = <<>> /\ window_mode = "line" /\ window_size = 0
    /\ collapse_consecutive = FALSE /\ dedup_pairs_per_line = FALSE
    /\ self_loop_mode \in {"remove", "keep"}
    /\ edge_count \in EdgeCounts
    /\ min_cooc \in MinCoocValues
    /\ \E runs \in SeqsUpTo(GraphPairs \X RunLengths, MaxRuns) : cooc_pairs = Unroll(runs)
    /\ cooc_count = <<>>
    /\ G = EmptyGraph
    /\ npc = "count" /\ ret = "pending"

\* generate_network only: "if not cooc_count: ... return"
GuiReturnNoData ==
    /\ npc = "build" /\ impl = "gui" /\ cooc_count = <<>>
    /\ ret' = "label:no co-occurrence data"
    /\ npc' = "returned"
    /\ UNCHANGED <<impl, cooc_table, mergeVars, netArgs, cooc_pairs, cooc_count, G, filterVars, ruleVars>>

\* G = nx.Graph(); for (word1, word2), count in cooc_count.most_common(edge_count): ...
BuildGraph ==
    /\ npc = "build" /\ (impl = "gui" => cooc_count # <<>>)
    /\ G' = AddTopEdges(EmptyGraph, MostCommon(cooc_count, edge_count),
                        self_loop_mode, min_cooc)
    /\ npc' = "built"
    /\ UNCHANGED <<impl, cooc_table, mergeVars, netArgs, cooc_pairs, cooc_count, ret, filterVars, ruleVars>>

\* if len(G.nodes()) == 0: return None
ReturnNoNodes ==
    /\ npc = "built" /\ Len(G.nodes) = 0
    /\ ret' = IF impl = "service" THEN "None" ELSE "label:no network to show"
    /\ npc' = "returned"
    /\ UNCHANGED <<impl, cooc_table, mergeVars, netArgs, cooc_pairs, cooc_count, G, filterVars, ruleVars>>

\* if not nx.is_connected(G): keep the largest connected component
SelectComponent ==
    /\ npc = "built" /\ Len(G.nodes) # 0
    /\ G' = KeepLargestComponent(G)
    /\ npc' = "component"
    /\ UNCHANGED <<impl, cooc_table, mergeVars, netArgs, cooc_pairs, cooc_count, ret, filterVars, ruleVars>>

\* if len(G.edges()) > 0: prune the edges below max(1, max_weight // 5)
PruneEdges ==
    /\ npc = "component"
    /\ G' = PruneWeakEdges(G)
    /\ npc' = "pruned"
    /\ UNCHANGED <<impl, cooc_table, mergeVars, netArgs, cooc_pairs, cooc_count, ret, filterVars, ruleVars>>

\* if len(G.nodes()) < 2: return None
ReturnTooSmall ==
    /\ npc = "pruned" /\ TooSmall(G)
    /\ ret' = IF impl = "service" THEN "None" ELSE "label:not enough network"
    /\ npc' = "returned"
    /\ UNCHANGED <<impl, cooc_table, mergeVars, netArgs, cooc_pairs, cooc_count, G, filterVars, ruleVars>>

\* the graph goes on to layout, community detection and drawing
DrawGraph ==
    /\ npc = "pruned" /\ ~TooSmall(G)
    /\ ret' = "fig"
    /\ npc' = "drawn"
    /\ UNCHANGED <<impl, cooc_table, mergeVars, netArgs, cooc_pairs, cooc_count, G, filterVars, ruleVars>>

NextGraph ==
    \/ CountPairs \/ GuiReturnNoData \/ BuildGraph \/ ReturnNoNodes
    \/ SelectComponent \/ PruneEdges \/ ReturnTooSmall \/ DrawGraph

SpecGraph == InitGraph /\ [][NextGraph]_vars

----------------------------------------------------------------------------
(* Properties of the graph builder (C2, C9, C10)                           *)

\* g is connected: no proper non-empty part of its nodes is closed under its edges
ConnectedGraph(g) ==
    \A S \in SUBSET NodeSet(g) :
        (S # {} /\ S # NodeSet(g))
            => \E e \in EdgeSet(g) : e \cap S # {} /\ e \ S # {}

\* C2: whenever the builder goes on to lay out and draw, the graph (after
\* component selection and weight pruning) is connected.
C2_DrawnGraphConnected == npc = "drawn" => ConnectedGraph(G)

\* C9: whenever the builder does not end in a no-graph outcome, the graph
\* has at least 2 nodes and at least 1 edge.
C9_MinimumSize ==
    ret = "fig" => Cardinality(NodeSet(G)) >= 2 /\ Cardinality(EdgeSet(G)) >= 1

\* C9 witness: under selfLoopPolicy = keep the pairs {(A,A): 10, (A,B): 10}
\* give a drawn graph of the two nodes A, B with the edge A-B and a self-loop.
C9_Witness ==
    /\ ret = "fig" /\ self_loop_mode = "keep"
    /\ NodeSet(G) = {TokA, TokB}
    /\ EdgeSet(G) = {{TokA}, {TokA, TokB}}

\* number of occurrences in cooc_pairs of the pair with end points e
PairOccurrences(e) ==
    Cardinality({k \in 1..Len(cooc_pairs) : {cooc_pairs[k][1], cooc_pairs[k][2]} = e})

\* C10: every edge of the graph, as constructed and at every later step,
\* carries the number of occurrences of its pair in the pair list as weight,
\* and that weight is at least minCooccurrence.
C10_EdgeWeightIsCount ==
    \A e \in EdgeSet(G) :
        /\ G.weight[e] = PairOccurrences(e)
        /\ G.weight[e] >= min_cooc

\* C10 witness: minCooccurrence = 2 and counts {(A,B): 10, (C,D): 1} give a
\* drawn graph whose only edge is A-B, with weight 10.
C10_Witness ==
    /\ ret = "fig" /\ min_cooc = 2
    /\ Cardinality({k \in 1..Len(cooc_pairs) : cooc_pairs[k] = <<TokA, TokB>>}) = 10
    /\ Cardinality({k \in 1..Len(cooc_pairs) : cooc_pairs[k] = <<TokC, TokD>>}) = 1
    /\ Len(cooc_pairs) = 11
    /\ EdgeSet(G) = {{TokA, TokB}} /\ G.weight[{TokA, TokB}] = 10

----------------------------------------------------------------------------
(* Tokenization and filtering                                              *)

\* The analyzer is external: a text is given by what parse_with_pos returns
\* for each of its raw lines, a list of <<surface, part of speech>>.  For
\* the whole text the analyzer returns the concatenation of the lines.
Tags == {"N", "V"}

FilterTokens == {TokS, TokA}

\* the two-character surface with either tag, the one-character surface as
\* a particle
Morphemes == ({TokA} \X Tags) \cup {<<TokS, "P">>}

\* the analyses of the texts of n morphemes on l lines (l >= 1: text.split("\n")
\* never returns an empty list)
RECURSIVE TextsOf(_, _)
TextsOf(n, l) ==
    IF l = 1 THEN {<<line>> : line \in SeqsUpTo(Morphemes, n)}
    ELSE UNION { {<<first>> \o rest : rest \in TextsOf(n - Len(first), l - 1)}
                 : first \in SeqsUpTo(Morphemes, n) }

Texts == UNION {TextsOf(MaxTextToks, l) : l \in 1..MaxTextLines}

\* parse_with_pos(raw_line)[0] and [1]
SurfacesOf(morphs) == [k \in 1..Len(morphs) |-> morphs[k][1]]
PosOf(morphs)      == [k \in 1..Len(morphs) |-> morphs[k][2]]

\* mutant of Keep: only the empty string is too short
Keep_nonEmpty(s, stop_set) == s \notin stop_set /\ Len(s) > 0

\* the test of the list comprehensions of tokenize_text and merge_lines
Keep(s, stop_set) == s \notin stop_set /\ Len(s) > 1

\* the test of the list comprehension of apply_merge_rules_and_update_edit_area
GuiKeep(t, stop_set) == t \notin stop_set /\ Len(t) > 0

\* [x for x in seq if Test(x)], for the two tests
RECURSIVE FilterKeep(_, _)
FilterKeep(seq, stop_set) ==
    IF seq = <<>> THEN <<>>
    ELSE (IF Keep(seq[1], stop_set) THEN <<seq[1]>> ELSE <<>>)
             \o FilterKeep(Tail(seq), stop_set)

RECURSIVE GuiFilterKeep(_, _)
GuiFilterKeep(seq, stop_set) ==
    IF seq = <<>> THEN <<>>
    ELSE (IF GuiKeep(seq[1], stop_set) THEN <<seq[1]>> ELSE <<>>)
             \o GuiFilterKeep(Tail(seq), stop_set)

\* [p for s, p in zip(surfaces, pos_list) if ...]
RECURSIVE FilterPos(_, _)
FilterPos(morphs, stop_set) ==
    IF morphs = <<>> THEN <<>>
    ELSE (IF Keep(morphs[1][1], stop_set) THEN <<morphs[1][2]>> ELSE <<>>)
             \o FilterPos(Tail(morphs), stop_set)

\* Counter(tokens), as the function from the tokens to their counts
WordFreq(toks) == [t \in {toks[k] : k \in 1..Len(toks)} |-> Occ(toks, t)]

\* the loop that builds original_lines in tokenize_text
RECURSIVE OriginalLines(_, _)
OriginalLines(lines, stop_set) ==
    IF lines = <<>> THEN <<>>
    ELSE LET line_tokens == FilterKeep(lines[1], stop_set)
         IN (IF line_tokens # <<>> THEN <<Join(line_tokens)>> ELSE <<>>)
                \o OriginalLines(Tail(lines), stop_set)

\* apply_merge_rules_to_line, the whole call
RECURSIVE MergeLoop(_, _, _)
MergeLoop(line, sorted, st) ==
    IF st.i < Len(line) THEN MergeLoop(line, sorted, MergeLoopBody(line, sorted, st))
    ELSE st.out

ApplyMergeRulesToLine(line, rules) ==
    MergeLoop(line, SortRules(rules), [i |-> 0, out |-> <<>>])

\* apply_rules_to_tokens, the whole call
RECURSIVE GuiMergeLoop(_, _, _)
GuiMergeLoop(line, sorted, st) ==
    IF st.i < Len(line) THEN GuiMergeLoop(line, sorted, GuiMergeLoopBody(line, sorted, st))
    ELSE st.out

ApplyRulesToTokens(line, rules) ==
    IF line = <<>> THEN <<>>
    ELSE GuiMergeLoop(line, SortRules(rules), [i |-> 0, out |-> <<>>])

\* mutant of MergedLines: the lines are filtered before the rules are applied
MergedLines_filterFirst(lines, rules) ==
    [k \in 1..Len(lines) |->
        IF rules # <<>> THEN ApplyMergeRulesToLine(FilterKeep(lines[k], stop_words), rules)
        ELSE FilterKeep(lines[k], stop_words)]

\* new_line of merge_lines, for every line
MergedLines(lines, rules) ==
    [k \in 1..Len(lines) |->
        IF rules # <<>> THEN ApplyMergeRulesToLine(lines[k], rules) ELSE lines[k]]

\* new_line of apply_merge_rules_and_update_edit_area, for every line
GuiMergedLines(lines, rules) ==
    [k \in 1..Len(lines) |->
        IF rules # <<>> THEN ApplyRulesToTokens(lines[k], rules) ELSE lines[k]]

\* mutant of FilteredTokens: the first token that passes the filter is lost
RECURSIVE FilteredTokens_tail(_, _)
FilteredTokens_tail(lines, stop_set) ==
    IF lines = <<>> THEN <<>>
    ELSE IF FilterKeep(lines[1], stop_set) # <<>>
         THEN Tail(FilterKeep(lines[1], stop_set)) \o FilteredTokens_tail(Tail(lines), stop_set)
         ELSE FilteredTokens_tail(Tail(lines), stop_set)

\* filtered_tokens.extend(...) over the lines
RECURSIVE FilteredTokens(_, _)
FilteredTokens(lines, stop_set) ==
    IF lines = <<>> THEN <<>>
    ELSE FilterKeep(lines[1], stop_set) \o FilteredTokens(Tail(lines), stop_set)

\* merged_tokens_all.extend(filtered) over the lines
RECURSIVE MergedTokensAll(_, _)
MergedTokensAll(lines, stop_set) ==
    IF lines = <<>> THEN <<>>
    ELSE GuiFilterKeep(lines[1], stop_set) \o MergedTokensAll(Tail(lines), stop_set)

\* str.strip()
RECURSIVE LStrip(_)
LStrip(str) ==
    IF str # <<>> /\ IsSpace(str[1]) THEN LStrip(Tail(str)) ELSE str

RECURSIVE RStrip(_)
RStrip(str) ==
    IF str # <<>> /\ IsSpace(str[Len(str)]) THEN RStrip(SubSeq(str, 1, Len(str) - 1))
    ELSE str

Strip(str) == RStrip(LStrip(str))

\* str.split('\n')
RECURSIVE SplitLinesFrom(_, _, _)
SplitLinesFrom(str, cur, acc) ==
    IF str = <<>> THEN Append(acc, cur)
    ELSE IF str[1] = NL THEN SplitLinesFrom(Tail(str), <<>>, Append(acc, cur))
    ELSE SplitLinesFrom(Tail(str), Append(cur, str[1]), acc)

SplitLines(str) == SplitLinesFrom(str, <<>>, <<>>)

\* [" ".join(line.split()) for line in text.split('\n') if line.split()]
RECURSIVE EditedLines(_)
EditedLines(lines) ==
    IF lines = <<>> THEN <<>>
    ELSE (IF Split(lines[1]) # <<>> THEN <<Join(Split(lines[1]))>> ELSE <<>>)
             \o EditedLines(Tail(lines))

\* get_pos(word): the tag the analyzer gives the word parsed on its own
\* (a word the lexicon does not hold is tagged as a noun)
GetPos(word) ==
    IF word = <<>> \/ ~mecab THEN ""
    ELSE IF word \in DOMAIN lexicon THEN lexicon[word] ELSE "N"

\* the surfaces of every raw line of the text
LineSurfaces(txt) == [k \in 1..Len(txt.lines) |-> SurfacesOf(txt.lines[k])]

\* update_pre_tokens: the value it leaves in self.pre_tokens_lines
UpdatePreTokens(txt) == IF txt.blank THEN <<>> ELSE LineSurfaces(txt)

----------------------------------------------------------------------------
(* Tokenization and filtering as steps                                     *)

\* the merge-rule lists the filtering paths are run with: none, a rule whose
\* replacement has one character, a rule that consumes a one-character surface,
\* a rule whose replacement is one of the surfaces
FilterRuleLists ==
    { <<>>, <<Rule(<<TokA, TokA>>, TokY)>>, <<Rule(<<TokS, TokA>>, TokX)>>,
      <<Rule(<<TokA, TokS>>, TokA)>> }

InitFilter ==
    /\ IdleTable
    /\ impl \in {"service", "gui"}
    /\ tokens_line = <<>> /\ rules_sorted = <<>> /\ i = 0 /\ out = <<>> /\ mpc = "idle"
    /\ merge_rules \in FilterRuleLists
    /\ \E lines \in Texts :
          \E blank \in BOOLEAN :
              /\ blank => \A k \in 1..Len(lines) : lines[k] = <<>>
              /\ text = [blank |-> blank, lines |-> lines]
    /\ stop_words \in SUBSET FilterTokens
    \* the GUI's analyzer is available or not (then nothing else is set);
    \* parsed on its own, the two-character surface gets either tag
    /\ mecab \in (IF impl = "gui" /\ merge_rules = <<>> /\ stop_words = {}
                  THEN BOOLEAN ELSE {TRUE})
    /\ lexicon \in (IF impl = "gui" /\ mecab THEN [{TokA} -> Tags] ELSE {<<>>})
    /\ tok_ret = "pending"
    /\ IdleRules
    /\ pre_tokens_lines = <<>>
    /\ tokens = <<>> /\ word_freq = <<>> /\ original_lines = <<>>
    /\ window_mode = "sliding" /\ window_size = 0
    /\ collapse_consecutive = FALSE /\ dedup_pairs_per_line = FALSE
    /\ self_loop_mode = "remove" /\ edge_count = 0 /\ min_cooc = 0
    /\ cooc_pairs = <<>> /\ cooc_count = <<>>
    /\ G = [nodes |-> <<>>, weight |-> <<>>] /\ npc = "idle" /\ ret = "pending"
    /\ pos_cache = <<>> /\ edit_area = <<>>
    /\ merged_lines = <<>> /\ filtered_tokens = <<>>
    /\ fpc = "start"

\* the position after a handler: a GUI that is followed through its event
\* loop (fpc = "edit") is ready for the next event, a single call ends at pc
After(pc) == IF fpc = "edit" THEN "edit" ELSE pc

netRest == <<window_mode, window_size, collapse_consecutive, dedup_pairs_per_line,
             self_loop_mode, edge_count, min_cooc, cooc_pairs, cooc_count, G, npc, ret>>

\* TokenizationService.tokenize_text(text, stop_words)
TokenizeText ==
    /\ impl = "service" /\ fpc = "start"
    /\ LET whole == FlattenLines(text.lines)
       IN /\ pre_tokens_lines' = LineSurfaces(text)
          /\ original_lines' = OriginalLines(LineSurfaces(text), stop_words)
          /\ tokens' = FilterKeep(SurfacesOf(whole), stop_words)
          /\ pos_cache' = FilterPos(whole, stop_words)
          /\ word_freq' = WordFreq(tokens')
    /\ fpc' = "tokenized"
    /\ tok_ret' = "result"
    /\ UNCHANGED <<impl, cooc_table, mergeVars, netRest, text, stop_words, edit_area,
                   merged_lines, filtered_tokens, mecab, lexicon, ruleVars>>

\* mutant of RefreshWordList: the tags are not looked up again
RefreshWordList_staleTags(edited) ==
    LET stripped == Strip(edited)
    IN /\ tokens' = Split(stripped)
       /\ word_freq' = WordFreq(tokens')
       /\ pos_cache' = pos_cache
       /\ original_lines' = EditedLines(SplitLines(stripped))

\* refresh_word_list: tokens, word_freq, pos_cache and original_lines are
\* read back from the edit area, whose new contents are edited
RefreshWordList(edited) ==
    LET stripped == Strip(edited)
    IN /\ tokens' = Split(stripped)
       /\ word_freq' = WordFreq(tokens')
       /\ pos_cache' = [k \in 1..Len(tokens') |-> GetPos(tokens'[k])]
       /\ original_lines' = EditedLines(SplitLines(stripped))

\* JapaneseTextAnalyzer.tokenize_text: the three failures, each with what
\* it has assigned before it returns, and the success with its call of
\* refresh_word_list
GuiTokenizeText ==
    /\ impl = "gui" /\ fpc \in {"start", "edit"}
    /\ LET whole == FlattenLines(text.lines)
       IN IF ~mecab
          THEN /\ tok_ret' = "error:no analyzer"
               /\ fpc' = After("failed")
               /\ UNCHANGED <<pre_tokens_lines, original_lines, tokens, pos_cache,
                              word_freq, edit_area>>
          ELSE IF text.blank
          THEN /\ tok_ret' = "warning:no text"
               /\ fpc' = After("failed")
               /\ UNCHANGED <<pre_tokens_lines, original_lines, tokens, pos_cache,
                              word_freq, edit_area>>
          ELSE IF whole = <<>>
          THEN /\ pre_tokens_lines' = LineSurfaces(text)
               /\ original_lines' = OriginalLines(LineSurfaces(text), stop_words)
               /\ tok_ret' = "error:no analysis"
               /\ fpc' = After("failed")
               /\ UNCHANGED <<tokens, pos_cache, word_freq, edit_area>>
          ELSE /\ pre_tokens_lines' = LineSurfaces(text)
               /\ edit_area' = Join(FilterKeep(SurfacesOf(whole), stop_words))
               /\ RefreshWordList(edit_area')
               /\ tok_ret' = "info:done"
               /\ fpc' = After("tokenized")
    /\ UNCHANGED <<impl, cooc_table, mergeVars, netRest, text, stop_words, merged_lines,
                   filtered_tokens, mecab, lexicon, ruleVars>>

\* TokenizationService.merge_lines(pre_tokens_lines, merge_rules, stop_words)
MergeLines ==
    /\ impl = "service" /\ fpc = "tokenized"
    /\ merged_lines' = MergedLines(pre_tokens_lines, merge_rules)
    /\ filtered_tokens' = FilteredTokens(merged_lines', stop_words)
    /\ fpc' = "merged"
    /\ UNCHANGED <<impl, cooc_table, mergeVars, netVars, text, stop_words, pos_cache, edit_area,
                   mecab, lexicon, tok_ret, ruleVars>>

\* JapaneseTextAnalyzer.apply_merge_rules_and_update_edit_area, with the
\* calls of update_pre_tokens and refresh_word_list it makes
ApplyMergeRulesAndUpdateEditArea ==
    /\ impl = "gui" /\ fpc \in {"start", "tokenized", "edit"} /\ mecab
    /\ pre_tokens_lines' =
          IF pre_tokens_lines = <<>> THEN UpdatePreTokens(text) ELSE pre_tokens_lines
    /\ edit_area' =
          Join(MergedTokensAll(GuiMergedLines(pre_tokens_lines', merge_rules), stop_words))
    /\ RefreshWordList(edit_area')
    /\ fpc' = After("applied")
    /\ UNCHANGED <<impl, cooc_table, mergeVars, netRest, text, stop_words, merged_lines, filtered_tokens,
                   mecab, lexicon, tok_ret, ruleVars>>

\* the value of min_freq_var the network is asked for with: every word of
\* the edit area is in the vocabulary
MinFreq == 1

\* {k: v for k, v in word_freq.items() if v >= min_freq}
FilteredFreq(wf, m) == [t \in {x \in DOMAIN wf : wf[x] >= m} |-> wf[t]]

\* JapaneseTextAnalyzer.on_generate_network and, in line mode, generate_network
\* up to the end of the pair extraction (the steps that follow are those of
\* the graph builder); the other settings are as the widgets are built
GenerateNetworkLineMode ==
    /\ impl = "gui" /\ fpc = "applied" /\ npc = "idle"
    /\ LET edited == Strip(edit_area)
           wf     == FilteredFreq(WordFreq(Split(edited)), MinFreq)
       IN IF edited = <<>>
          THEN /\ ret' = "warning:no words"
               /\ npc' = "returned"
               /\ UNCHANGED <<window_mode, cooc_pairs>>
          ELSE IF DOMAIN wf = {}
          THEN /\ ret' = "warning:no frequent words"
               /\ npc' = "returned"
               /\ UNCHANGED <<window_mode, cooc_pairs>>
          ELSE /\ window_mode' = "line"
               /\ cooc_pairs' =
                     IF pre_tokens_lines # <<>>
                     THEN PreLinePairs("gui", pre_tokens_lines, wf, window_size,
                                       collapse_consecutive, dedup_pairs_per_line)
                     ELSE FallbackLinePairs("gui", original_lines, wf, window_size,
                                            collapse_consecutive, dedup_pairs_per_line)
               /\ npc' = "count"
               /\ UNCHANGED ret
    /\ UNCHANGED <<impl, cooc_table, mergeVars, tokens, word_freq, pre_tokens_lines, original_lines,
                   window_size, collapse_consecutive, dedup_pairs_per_line,
                   self_loop_mode, edge_count, min_cooc, cooc_count, G,
                   filterVars, ruleVars>>

NextFilter ==
    \/ TokenizeText \/ GuiTokenizeText \/ MergeLines \/ ApplyMergeRulesAndUpdateEditArea
    \/ GenerateNetworkLineMode

SpecFilter == InitFilter /\ [][NextFilter]_vars

\* the tokens of the lines of original_lines
TokensOfLines(lines) == FlattenLines([k \in 1..Len(lines) |-> Split(lines[k])])

\* every token of the list has at least two characters
AllLong(toks) == \A k \in 1..Len(toks) : Len(toks[k]) >= 2

\* the paths of the service: tokens and original_lines of tokenize_text, the
\* filtered list of merge_lines
ServiceNoShortToken ==
    /\ fpc \in {"tokenized", "merged"} =>
          AllLong(tokens) /\ AllLong(TokensOfLines(original_lines))
    /\ fpc = "merged" => AllLong(filtered_tokens)

\* the path of the GUI: the token stream written to the edit area
GuiNoShortToken == fpc = "applied" => AllLong(Split(edit_area))

\* C3: no token of fewer than two characters survives stop-word filtering,
\* on any filtering path and for any stop-word set.
C3_NoShortToken == ServiceNoShortToken /\ GuiNoShortToken

----------------------------------------------------------------------------
(* Properties of the pruning and of the failure outcomes (C11, C12)        *)

\* w is the largest edge weight of g
IsLargestWeight(g, w) ==
    /\ \E e \in EdgeSet(g) : g.weight[e] = w
    /\ \A e \in EdgeSet(g) : g.weight[e] <= w

\* C11: the pruning step leaves only edges of weight >= max(1, maxWeight // 5),
\* maxWeight being the largest edge weight of the component selected just
\* before, and leaves an edge of that largest weight in the graph.
C11_PruneThreshold ==
    [][ (npc = "component" /\ npc' = "pruned") =>
          \A w \in 1..Len(cooc_pairs) :
              IsLargestWeight(G, w) =>
                  /\ \A e \in EdgeSet(G') :
                        G'.weight[e] >= 1 /\ G'.weight[e] >= w \div 5
                  /\ \E e \in EdgeSet(G') : G'.weight[e] = w ]_vars

\* C11 witness: the component A - B - C with weights 10 and 1 has been pruned
\* to the edge A-B (min_weight = 2).
C11_Witness ==
    /\ npc = "pruned" /\ self_loop_mode = "remove" /\ min_cooc = 1 /\ edge_count = 2
    /\ cooc_pairs = Unroll(<< <<<<TokA, TokB>>, 10>>, <<<<TokB, TokC>>, 1>> >>)
    /\ EdgeSet(G) = {{TokA, TokB}} /\ G.weight[{TokA, TokB}] = 10

\* What the caller of build_network_figure / generate_network gets for the pair
\* list pairs: the steps from the counting of the pairs to the last gate,
\* as one function of the arguments.
BuildOutcome(im, pairs, ec, mc, loops) ==
    LET cc     == FilterMinCooc(CounterOf(pairs), mc)
        built  == AddTopEdges(EmptyGraph, MostCommon(cc, ec), loops, mc)
        pruned == PruneWeakEdges(KeepLargestComponent(built))
    IN IF im = "gui" /\ cc = <<>> THEN "label:no co-occurrence data"
       ELSE IF Len(built.nodes) = 0
            THEN (IF im = "service" THEN "None" ELSE "label:no network to show")
       ELSE IF TooSmall(pruned)
            THEN (IF im = "service" THEN "None" ELSE "label:not enough network")
       ELSE "fig"

\* the three ways the construction fails
FailureCauses == {"NoData", "NoEdges", "TooSmall"}

\* the way the construction has failed, in a state where it has returned
\* without a figure: no pair reached min_cooc; pairs did but the graph got no
\* node; the graph got nodes but fewer than two are left
FailureCause ==
    IF cooc_count = <<>> THEN "NoData"
    ELSE IF Len(G.nodes) = 0 THEN "NoEdges"
    ELSE "TooSmall"

\* what the caller gets in a plain case of each failure: one pair (A,B) below
\* min_cooc = 2; one self-pair (A,A) with self-loops removed; one self-pair
\* (A,A) with self-loops kept (a single node)
ReferenceOutcome(im, cause) ==
    IF cause = "NoData" THEN BuildOutcome(im, << <<TokA, TokB>> >>, 1, 2, "remove")
    ELSE IF cause = "NoEdges" THEN BuildOutcome(im, << <<TokA, TokA>> >>, 1, 1, "remove")
    ELSE BuildOutcome(im, << <<TokA, TokA>> >>, 1, 1, "keep")

\* C12: the three failures are reported as three distinguishable outcomes:
\* what the caller gets when the construction fails in one way is never what
\* it gets when the construction fails in another way.
C12_FailuresDistinguishable ==
    npc = "returned" =>
        \A c \in FailureCauses \ {FailureCause} : ReferenceOutcome(impl, c) # ret

\* the GUI twin alone reports the three failures with three labels
GuiFailuresDistinguishable == impl = "gui" => C12_FailuresDistinguishable

\* the outcome of every call is the outcome BuildOutcome computes
OutcomeAsComputed ==
    npc \in {"returned", "drawn"} =>
        ret = BuildOutcome(impl, cooc_pairs, edge_count, min_cooc, self_loop_mode)

----------------------------------------------------------------------------
(* Properties of tokenize_text (C13, C14, C18)                             *)

\* the analysis of the whole text
WholeText == FlattenLines(text.lines)

\* the positions of the whole-text analysis whose surface is kept: not a
\* stop word, two characters or more
KeptPositions ==
    {p \in 1..Len(WholeText) :
        WholeText[p][1] \notin stop_words /\ Len(WholeText[p][1]) >= 2}

\* the k-th kept position
NthKept(k) ==
    CHOOSE p \in KeptPositions : Cardinality({q \in KeptPositions : q < p}) = k - 1

\* C13: after tokenize_text, pos_cache is as long as tokens, and pos_cache[k]
\* is the tag the analyzer gave the occurrence of the surface that became
\* tokens[k].
C13_PosCacheAligned ==
    fpc = "tokenized" =>
        /\ Len(pos_cache) = Len(tokens)
        /\ Len(tokens) = Cardinality(KeptPositions)
        /\ \A k \in 1..Len(tokens) :
              /\ tokens[k] = WholeText[NthKept(k)][1]
              /\ pos_cache[k] = WholeText[NthKept(k)][2]

\* the service twin alone keeps pos_cache aligned
ServicePosCacheAligned == impl = "service" => C13_PosCacheAligned

\* tokenize_text has reported a failure
ReportsFailure == tok_ret \notin {"result", "info:done"}

\* C14: when the analyzer yields no surface for the whole of a text that is
\* not empty, tokenize_text reports a failure; it does not hand back an empty
\* result as a success.
C14_EmptyAnalysisIsFailure ==
    (fpc \in {"tokenized", "failed"} /\ ~text.blank /\ WholeText = <<>>) => ReportsFailure

\* the GUI twin alone reports the empty analysis as an error
GuiEmptyAnalysisIsFailure == impl = "gui" => C14_EmptyAnalysisIsFailure

----------------------------------------------------------------------------
(* The merge-rule editor of the GUI                                        *)

\* "".join(seq)
RECURSIVE Concat(_)
Concat(toks) == IF toks = <<>> THEN <<>> ELSE toks[1] \o Concat(Tail(toks))

\* the values of the Combobox of merge_len_var
MergeLenValues == {2, 3, 4}

\* what the user types into merge_seq_entry: blanks, sequences of two to
\* four tokens, and the sequence A B once more with other spacing
SeqEntries ==
    { <<SP>>,
      Join(<<TokA, TokB>>), <<SP>> \o TokA \o <<SP, SP>> \o TokB \o <<SP>>,
      Join(<<TokA, TokB, TokA>>), Join(<<TokA, TokB, TokA, TokB>>) }

\* what the user types into merge_to_entry
ToEntries == { <<>>, <<SP>> \o TokX }

\* mutant of SameSeq: no stored rule is taken to have the sequence
SameSeq_never(rules, seq) == FALSE

\* any(r["seq"] == seq for r in self.merge_rules)
SameSeq(rules, seq) == \E k \in 1..Len(rules) : rules[k].seq = seq

\* del self.merge_rules[i] (i counted from 0)
DeleteAt(rules, idx) ==
    [k \in 1..(Len(rules) - 1) |-> IF k <= idx THEN rules[k] ELSE rules[k + 1]]

InitRules ==
    /\ IdleTable
    /\ impl = "gui"
    /\ IdleMerge /\ IdleNet /\ IdleFilter

\* the user fills the fields of the rule editor (the message box of the
\* last add has been closed)
EditRuleFields ==
    /\ merge_seq_entry' \in SeqEntries
    /\ merge_to_entry' \in ToEntries
    /\ merge_len_var' \in MergeLenValues
    /\ rule_msg' = "none"
    /\ UNCHANGED <<impl, cooc_table, mergeVars, netVars, filterVars>>

\* JapaneseTextAnalyzer.add_merge_rule
AddMergeRule ==
    LET raw    == Strip(merge_seq_entry)
        seq    == Split(raw)
        n      == merge_len_var
        to     == Strip(merge_to_entry)
        merged == IF to # <<>> THEN to ELSE Concat(seq)
        rule   == [len |-> n, seq |-> seq, merged |-> merged]
    IN /\ IF raw = <<>>
          THEN /\ rule_msg' = "warning:empty"
               /\ UNCHANGED <<merge_rules, merge_seq_entry, merge_to_entry>>
          ELSE IF Len(seq) # n
          THEN /\ rule_msg' = "warning:length"
               /\ UNCHANGED <<merge_rules, merge_seq_entry, merge_to_entry>>
          ELSE IF SameSeq(merge_rules, seq)
          THEN /\ rule_msg' = "warning:duplicate"
               /\ UNCHANGED <<merge_rules, merge_seq_entry, merge_to_entry>>
          ELSE /\ merge_rules' = Append(merge_rules, rule)
               /\ merge_seq_entry' = <<>>
               /\ merge_to_entry' = <<>>
               /\ rule_msg' = "added"
       /\ UNCHANGED <<impl, cooc_table, tokens_line, rules_sorted, i, out, mpc, netVars, filterVars,
                      merge_len_var>>

\* JapaneseTextAnalyzer.remove_selected_merge_rule: no rule is selected, or
\* the rule at index idx is
RemoveSelectedMergeRule ==
    /\ \/ UNCHANGED merge_rules
       \/ \E idx \in 0..(Len(merge_rules) - 1) : merge_rules' = DeleteAt(merge_rules, idx)
    /\ UNCHANGED <<impl, cooc_table, tokens_line, rules_sorted, i, out, mpc, netVars, filterVars, ruleVars>>

NextRules == EditRuleFields \/ AddMergeRule \/ RemoveSelectedMergeRule

SpecRules == InitRules /\ [][NextRules]_vars

\* no two stored rules have the same sequence; every stored rule has len equal
\* to the number of tokens of its sequence, one of 2, 3, 4
RulesWellFormed ==
    /\ \A j, k \in 1..Len(merge_rules) :
          merge_rules[j].seq = merge_rules[k].seq => j = k
    /\ \A k \in 1..Len(merge_rules) :
          /\ merge_rules[k].len = Len(merge_rules[k].seq)
          /\ merge_rules[k].len \in {2, 3, 4}

\* the token sequence typed into the rule editor
TypedSeq == Split(merge_seq_entry)

\* a step of add_merge_rule: the only step that shows a message
IsAddStep == rule_msg' # rule_msg /\ rule_msg' # "none"

\* C15: after any sequence of add_merge_rule and remove_selected_merge_rule,
\* the stored rules have distinct sequences and a len that is the token count
\* of their sequence and one of 2, 3, 4; an add whose sequence is that of a
\* stored rule, or whose token count is not the declared length, is rejected
\* and leaves the rule list unchanged.
C15_RuleListWellFormed ==
    /\ []RulesWellFormed
    /\ [][ (IsAddStep /\ (\/ \E k \in 1..Len(merge_rules) : merge_rules[k].seq = TypedSeq
                          \/ Len(TypedSeq) # merge_len_var))
              => /\ merge_rules' = merge_rules
                 /\ rule_msg' # "added" ]_vars

\* C15 witness: with rules for A B and A B A stored, an add of A B typed with
\* other spacing has been rejected as a duplicate.
C15_Witness ==
    /\ rule_msg = "warning:duplicate"
    /\ Len(merge_rules) = 2
    /\ merge_rules[1].seq = <<TokA, TokB>> /\ merge_rules[2].seq = <<TokA, TokB, TokA>>
    /\ merge_seq_entry = <<SP>> \o TokA \o <<SP, SP>> \o TokB \o <<SP>>
    /\ merge_len_var = 2

----------------------------------------------------------------------------
(* Order of the rule list (C16)                                            *)

\* the rearrangements of the rule list
Rearrangements(rules) ==
    { [k \in 1..Len(rules) |-> rules[f[k]]] :
        f \in {g \in [1..Len(rules) -> 1..Len(rules)] :
                  \A a, b \in 1..Len(rules) : g[a] = g[b] => a = b} }

\* the rules of p with the sequence sq, in their order in p
WithSeq(p, sq) == SelectSeq(p, LAMBDA r : r.seq = sq)

\* p keeps the rules of one and the same sequence in the order they have in rules
KeepsTieOrder(p, rules) ==
    \A k \in 1..Len(rules) : WithSeq(p, rules[k].seq) = WithSeq(rules, rules[k].seq)

\* C16: the output of apply_merge_rules_to_line for a token line is the same
\* for every rearrangement of the rule list that keeps rules of equal sequence
\* (the only rules of equal length that match at one position) in their
\* order; for a rule list without duplicate sequences that is every
\* permutation.
C16_RuleOrderIrrelevant ==
    mpc = "done" =>
        \A p \in Rearrangements(merge_rules) :
            KeepsTieOrder(p, merge_rules) =>
                out = (IF impl = "service" THEN ApplyMergeRulesToLine(tokens_line, p)
                       ELSE ApplyRulesToTokens(tokens_line, p))

\* C16 witness: the line A B A has been rewritten to X with the rule
\* A B -> Y listed before the rule A B A -> X; the two rules have different
\* sequences, so the list in the other order is compared.
C16_Witness ==
    /\ mpc = "done" /\ impl = "service"
    /\ tokens_line = <<TokA, TokB, TokA>>
    /\ merge_rules = <<Rule(<<TokA, TokB>>, TokY), Rule(<<TokA, TokB, TokA>>, TokX)>>
    /\ out = <<TokX>>
    /\ Cardinality({p \in Rearrangements(merge_rules) : KeepsTieOrder(p, merge_rules)}) = 2

----------------------------------------------------------------------------
(* Properties of merge_lines (C17)                                         *)

\* the rewrite of the line from position pos (counted from 0) on: where rules
\* match, the replacement of the first listed among the longest of them and
\* a jump over its sequence; elsewhere the token itself
RECURSIVE RewriteFrom(_, _, _)
RewriteFrom(line, pos, rules) ==
    IF pos >= Len(line) THEN <<>>
    ELSE LET hits == {k \in 1..Len(rules) :
                         /\ pos + Len(rules[k].seq) <= Len(line)
                         /\ SubSeq(line, pos + 1, pos + Len(rules[k].seq)) = rules[k].seq}
             best == CHOOSE k \in hits :
                         \A h \in hits :
                             \/ Len(rules[h].seq) < Len(rules[k].seq)
                             \/ (Len(rules[h].seq) = Len(rules[k].seq) /\ k <= h)
         IN IF hits = {} THEN <<line[pos + 1]>> \o RewriteFrom(line, pos + 1, rules)
            ELSE <<rules[best].merged>>
                     \o RewriteFrom(line, pos + Len(rules[best].seq), rules)

\* the tokens of toks that are no stop word and longer than one character
Surviving(toks) == SelectSeq(toks, LAMBDA t : t \notin stop_words /\ Len(t) > 1)

\* C17: merge_lines rewrites every line of pre-tokens by the rules before
\* any filtering (merged_lines has the rewrite of each line, stop words and
\* short tokens still in it) and returns as filtered list the surviving
\* tokens of the rewritten lines, in order.
C17_MergeBeforeFilter ==
    fpc = "merged" =>
        /\ Len(merged_lines) = Len(pre_tokens_lines)
        /\ \A k \in 1..Len(merged_lines) :
              merged_lines[k] = RewriteFrom(pre_tokens_lines[k], 0, merge_rules)
        /\ filtered_tokens = Surviving(FlattenLines(merged_lines))

\* C17 witness: with the stop word A, the rule A S -> A has fired on the
\* line [A, S] although its sequence holds the stop word (and a short token),
\* and its replacement A, a stop word, has been dropped from the filtered
\* list, which keeps nothing of the two lines.
C17_Witness ==
    /\ fpc = "merged" /\ stop_words = {TokA}
    /\ merge_rules = <<Rule(<<TokA, TokS>>, TokA)>>
    /\ pre_tokens_lines = <<<<TokA, TokS>>, <<TokS>>>>
    /\ merged_lines = <<<<TokA>>, <<TokS>>>>
    /\ filtered_tokens = <<>>

----------------------------------------------------------------------------
(* Result of the service's tokenize_text (C18)                             *)

\* the raw lines that keep at least one token
KeptLines == {k \in 1..Len(text.lines) : Surviving(SurfacesOf(text.lines[k])) # <<>>}

\* the j-th of them
NthKeptLine(j) ==
    CHOOSE k \in KeptLines : Cardinality({q \in KeptLines : q < k}) = j - 1

\* the sum of the counts f gives the keys of S
RECURSIVE SumCounts(_, _)
SumCounts(f, S) ==
    IF S = {} THEN 0
    ELSE LET t == CHOOSE x \in S : TRUE IN f[t] + SumCounts(f, S \ {t})

\* C18: after tokenize_text(text, stop_words) of the service, tokens is the
\* list of the whole-text surfaces that are no stop word and longer than one
\* character, in the analyzer's order; word_freq counts the occurrences of
\* every token in tokens and has no other key; original_lines has one string
\* for every line that keeps a token, its kept tokens joined by spaces, and
\* none for the other lines.
C18_TokenizeResult ==
    (impl = "service" /\ fpc = "tokenized") =>
        /\ tokens = Surviving(SurfacesOf(WholeText))
        /\ DOMAIN word_freq = {tokens[k] : k \in 1..Len(tokens)}
        /\ DOMAIN word_freq \cap stop_words = {}
        /\ \A t \in DOMAIN word_freq :
              word_freq[t] = Cardinality({k \in 1..Len(tokens) : tokens[k] = t})
        /\ SumCounts(word_freq, DOMAIN word_freq) = Len(tokens)
        /\ Len(original_lines) = Cardinality(KeptLines)
        /\ \A j \in 1..Len(original_lines) :
              original_lines[j] = Join(Surviving(SurfacesOf(text.lines[NthKeptLine(j)])))

\* C18 witness: the text of the lines [S] and [A, A], without stop words,
\* gives tokens [A, A], word_freq {A: 2} and the one line "A A": the first
\* line keeps no token and is omitted.
C18_Witness ==
    /\ impl = "service" /\ fpc = "tokenized" /\ stop_words = {}
    /\ LineSurfaces(text) = <<<<TokS>>, <<TokA, TokA>>>>
    /\ tokens = <<TokA, TokA>>
    /\ word_freq[TokA] = 2
    /\ original_lines = <<TokA \o <<SP>> \o TokA>>

----------------------------------------------------------------------------
(* Stop-word filtering applied again (C19)                                 *)

\* the tokens the lists to filter are drawn from
StopTokens == {TokS, TokA, TokB}

\* [w for w in words if w not in self.stop_words] of apply_stop_words
RECURSIVE GuiDropStopWords(_, _)
GuiDropStopWords(words, stop_set) ==
    IF words = <<>> THEN <<>>
    ELSE (IF words[1] \notin stop_set THEN <<words[1]>> ELSE <<>>)
             \o GuiDropStopWords(Tail(words), stop_set)

\* A token list and a stop-word set are drawn.  The service is given the
\* list as the one line of pre-tokens of merge_lines, without merge rules;
\* the GUI holds it in the edit area, as the user has edited it.
InitStop ==
    /\ IdleTable
    /\ impl \in {"service", "gui"}
    /\ IdleMerge
    /\ stop_words \in SUBSET StopTokens
    /\ \E T \in SeqsUpTo(StopTokens, MaxLineLen) :
          IF impl = "service"
          THEN /\ pre_tokens_lines = <<T>>
               /\ edit_area = <<>> /\ tokens = <<>> /\ word_freq = <<>>
               /\ pos_cache = <<>> /\ original_lines = <<>>
               /\ fpc = "tokenized"
          ELSE /\ pre_tokens_lines = <<>>
               /\ edit_area = Join(T) /\ tokens = T /\ word_freq = WordFreq(T)
               /\ pos_cache = [k \in 1..Len(T) |-> "N"]
               /\ original_lines = EditedLines(SplitLines(Join(T)))
               /\ fpc = "edited"
    /\ text = [blank |-> TRUE, lines |-> << <<>> >>]
    /\ merged_lines = <<>> /\ filtered_tokens = <<>>
    /\ mecab = TRUE /\ lexicon = <<>> /\ tok_ret = "pending"
    /\ IdleRules
    /\ window_mode = "sliding" /\ window_size = 0
    /\ collapse_consecutive = FALSE /\ dedup_pairs_per_line = FALSE
    /\ self_loop_mode = "remove" /\ edge_count = 0 /\ min_cooc = 0
    /\ cooc_pairs = <<>> /\ cooc_count = <<>>
    /\ G = [nodes |-> <<>>, weight |-> <<>>] /\ npc = "idle" /\ ret = "pending"

\* merge_lines([filtered_tokens], merge_rules, stop_words): the filtered list
\* is filtered once more
MergeLinesAgain ==
    /\ impl = "service" /\ fpc = "merged"
    /\ merged_lines' = MergedLines(<<filtered_tokens>>, merge_rules)
    /\ filtered_tokens' = FilteredTokens(merged_lines', stop_words)
    /\ fpc' = "refiltered"
    /\ UNCHANGED <<impl, cooc_table, mergeVars, netVars, text, stop_words, pos_cache, edit_area,
                   mecab, lexicon, tok_ret, ruleVars>>

\* the body of apply_stop_words, run with the stop words the list box holds:
\* an empty edit area is left alone, else the words that are no stop word
\* are written back and refresh_word_list is called
StopWordsApplied(stop_set) ==
    LET edited == Strip(edit_area)
    IN IF edited = <<>>
       THEN UNCHANGED <<edit_area, tokens, word_freq, pos_cache, original_lines>>
       ELSE /\ edit_area' = Join(GuiDropStopWords(Split(edited), stop_set))
            /\ RefreshWordList(edit_area')

\* JapaneseTextAnalyzer.apply_stop_words, with its call of refresh_word_list
ApplyStopWords ==
    /\ impl = "gui" /\ fpc \in {"edited", "stopped", "edit"}
    /\ StopWordsApplied(stop_words)
    /\ fpc' = After("stopped")
    /\ UNCHANGED <<impl, cooc_table, mergeVars, netRest, pre_tokens_lines, text, stop_words,
                   merged_lines, filtered_tokens, mecab, lexicon, tok_ret, ruleVars>>

NextStop == MergeLines \/ MergeLinesAgain \/ ApplyStopWords

SpecStop == InitStop /\ [][NextStop]_vars

\* C19: filtering a list that has been filtered with the same stop-word set
\* changes nothing: the list returned by merge_lines for its own filtered
\* list is that list (the test is that of tokenize_text), and apply_stop_words
\* applied after apply_stop_words leaves the edit area and the tokens as
\* they are.
C19_FilterIdempotent ==
    /\ [][ (fpc = "merged" /\ fpc' = "refiltered")
              => filtered_tokens' = filtered_tokens ]_vars
    /\ [][ (fpc = "stopped" /\ fpc' = "stopped")
              => (edit_area' = edit_area /\ tokens' = tokens) ]_vars

\* C19 witness: the list [A, S, B, A] filtered with the stop word B gave
\* [A, A], and [A, A] has been filtered again.
C19_Witness ==
    /\ fpc = "refiltered" /\ stop_words = {TokB}
    /\ pre_tokens_lines = <<<<TokA, TokS, TokB, TokA>>>>
    /\ merged_lines = <<<<TokA, TokA>>>>
    /\ filtered_tokens = <<TokA, TokA>>

----------------------------------------------------------------------------
(* Merged tokens in the line-mode network (C20)                            *)

\* the lines of pre-tokens after the rules and after the stop-word filter
\* of the GUI
MergedFilteredLines ==
    [k \in 1..Len(pre_tokens_lines) |->
        SelectSeq(IF merge_rules # <<>>
                  THEN RewriteFrom(pre_tokens_lines[k], 0, merge_rules)
                  ELSE pre_tokens_lines[k],
                  LAMBDA t : t \notin stop_words /\ Len(t) > 0)]

\* the rules have rewritten line k
RuleFiredOn(k) ==
    merge_rules # <<>>
        /\ RewriteFrom(pre_tokens_lines[k], 0, merge_rules) # pre_tokens_lines[k]

\* the vocabulary the network is built with
NetworkVocabulary == DOMAIN FilteredFreq(WordFreq(Split(Strip(edit_area))), MinFreq)

\* the two tokens as a pair of cooc_pairs, whatever their order
Paired(x, y) ==
    \E n \in 1..Len(cooc_pairs) : {cooc_pairs[n][1], cooc_pairs[n][2]} = {x, y}

\* C20: once the merge rules have been applied to the token stream, the
\* line-mode extraction works on the lines as merged and filtered: a merged
\* token of the vocabulary is paired with every other token of its line that
\* is in the vocabulary.
C20_MergedTokensPaired ==
    (fpc = "applied" /\ npc = "count") =>
        \A k \in 1..Len(pre_tokens_lines) :
            RuleFiredOn(k) =>
                \A a, b \in 1..Len(MergedFilteredLines[k]) :
                    LET m == MergedFilteredLines[k][a]
                        t == MergedFilteredLines[k][b]
                    IN (/\ a # b
                        /\ \E r \in 1..Len(merge_rules) : merge_rules[r].merged = m
                        /\ m \in NetworkVocabulary /\ t \in NetworkVocabulary)
                           => Paired(m, t)

----------------------------------------------------------------------------
(* The merge loop against the leftmost rewrite (C21)                       *)

\* C21: the list apply_merge_rules_to_line returns is the leftmost rewrite of
\* the line: scanning from the left, at each position the first rule, in
\* length-descending stable order, whose sequence matches there is applied
\* and the scan jumps over the sequence, and where no rule matches the token
\* is emitted and the scan moves on by one; so a match that starts earlier
\* wins over a longer one that starts later, and with no rules the line is
\* returned as it is.
C21_LeftmostRewrite ==
    (mpc = "done" /\ impl = "service") =>
        /\ out = RewriteFrom(tokens_line, 0, merge_rules)
        /\ merge_rules = <<>> => out = tokens_line

\* C21 witness: on [A,B,A,B] the rule (A,B) matches at position 0 and the
\* longer rule (B,A,B) at position 1; the call has returned [Y,Y], the
\* earlier match taken twice, and not [A,X].
C21_Witness ==
    /\ mpc = "done" /\ impl = "service"
    /\ merge_rules = << Rule(<<TokB, TokA, TokB>>, TokX), Rule(<<TokA, TokB>>, TokY) >>
    /\ tokens_line = <<TokA, TokB, TokA, TokB>>
    /\ out = <<TokY, TokY>>

----------------------------------------------------------------------------
(* Termination of the merge loop (C22)                                     *)

\* The merge call under the scheduling of a running interpreter: a call that
\* can take a step takes it.
FairMerge == SpecMerge /\ WF_vars(NextMerge)

\* the cursor is inside the line and every iteration so far has consumed at
\* least one token for the one it emitted
CursorInRange == i <= Len(tokens_line) /\ Len(out) <= i

\* C22: apply_merge_rules_to_line terminates for every line and every list of
\* rules of length 2, 3 or 4: each iteration of the loop moves the scan
\* position forward by at least one and emits one token, the position never
\* passes the end of the line, so there are at most len(tokens_line)
\* iterations and the output is never longer than the input, and the call
\* returns.
C22_MergeTerminates ==
    /\ []CursorInRange
    /\ [][ (mpc = "loop" /\ i < Len(tokens_line))
            => (i' >= i + 1 /\ i' <= Len(tokens_line) /\ Len(out') = Len(out) + 1) ]_vars
    /\ [](mpc = "done" => Len(out) <= Len(tokens_line))
    /\ <>(mpc = "done")

\* C22 witness: a call on a line of four tokens with a rule of length 3 has
\* returned after two iterations, one that jumped three positions and one
\* that moved by one.
C22_Witness ==
    /\ mpc = "done" /\ impl = "service"
    /\ tokens_line = <<TokA, TokB, TokA, TokA>>
    /\ merge_rules = << Rule(<<TokA, TokB, TokA>>, TokX) >>
    /\ i = 4 /\ out = <<TokX, TokA>>

----------------------------------------------------------------------------
(* The edges taken from the count table (C23)                              *)

\* the number of occurrences of every pair of the pair list, by end points
PairCounts ==
    [e \in {{cooc_pairs[k][1], cooc_pairs[k][2]} : k \in 1..Len(cooc_pairs)}
        |-> PairOccurrences(e)]

\* the pairs that occur at least minCooccurrence times
QualifyingPairs(cnt) == {e \in DOMAIN cnt : cnt[e] >= min_cooc}

\* the qualifying pairs that occur more often than e
Outranking(cnt, e) == {f \in QualifyingPairs(cnt) : cnt[f] > cnt[e]}

\* the self-pairs that are among the maxEdges highest counts however equal
\* counts are ordered
TopSelfPairs(cnt) ==
    {e \in QualifyingPairs(cnt) :
        /\ Cardinality(e) = 1
        /\ Cardinality({f \in QualifyingPairs(cnt) : cnt[f] >= cnt[e]}) <= edge_count}

\* C23: the graph as constructed has at most maxEdges edges, each the pair of
\* one of the maxEdges highest counts among the pairs that reached minCooccurrence
\* (fewer than maxEdges qualifying pairs have a higher count); under
\* selfLoopPolicy = remove it has no self-loop, and a self-pair among the
\* top pairs is skipped without another pair taking its place.
C23_TopEdgesOnly ==
    npc = "built" =>
    LET cnt == PairCounts
    IN /\ Cardinality(EdgeSet(G)) <= edge_count
       /\ \A e \in EdgeSet(G) :
             /\ e \in QualifyingPairs(cnt)
             /\ Cardinality(Outranking(cnt, e)) < edge_count
       /\ self_loop_mode = "remove" =>
             /\ \A e \in EdgeSet(G) : Cardinality(e) = 2
             /\ Cardinality(EdgeSet(G)) + Cardinality(TopSelfPairs(cnt)) <= edge_count

\* C23 witness: maxEdges = 1, counts {(A,A): 10, (A,B): 1} under remove: the
\* top pair is the self-pair, it is skipped, and the graph is built with no
\* edge although (A,B) qualifies.
C23_Witness ==
    /\ npc = "built" /\ self_loop_mode = "remove" /\ edge_count = 1 /\ min_cooc = 1
    /\ PairOccurrences({TokA}) = 10 /\ PairOccurrences({TokA, TokB}) = 1
    /\ Len(cooc_pairs) = 11
    /\ G = EmptyGraph

----------------------------------------------------------------------------
(* The word-editing handlers of the GUI, followed through the event loop   *)

\* the texts the user puts into the input area: an empty one, one the
\* analyzer returns nothing for, and two lines with a repeated word and a
\* one-character particle
EditTexts ==
    { [blank |-> TRUE,  lines |-> << <<>> >>],
      [blank |-> FALSE, lines |-> << <<>> >>],
      [blank |-> FALSE, lines |-> << << <<TokA, "N">> >>, << <<TokS, "P">>, <<TokA, "V">> >> >>] }

\* what the user types into the edit area: words on one line with extra
\* blanks, words on two lines
EditAreaInputs ==
    { <<SP>> \o TokA \o <<SP, SP>> \o TokB,
      TokS \o <<NL>> \o TokA \o <<SP>> \o TokA }

\* the contents of the entries of the replace row
ReplaceFromEntries == {<<>>, TokA, TokS}
ReplaceToEntries == {<<>>, TokA \o <<SP>> \o TokS}

\* the longest edit area followed, in words: a replacement that would make
\* it longer is not followed
MaxEditToks == 3

\* the merge rules of the session
EditRuleLists == { <<Rule(<<TokS, TokA>>, TokX)>> }

\* the state the constructor leaves: the analyzer is available, the default
\* stop words hold a one-character particle
InitEdit ==
    /\ IdleTable
    /\ impl = "gui"
    /\ tokens_line = <<>> /\ rules_sorted = <<>> /\ i = 0 /\ out = <<>> /\ mpc = "idle"
    /\ merge_rules \in EditRuleLists
    /\ text \in EditTexts
    /\ stop_words = {TokS}
    /\ mecab = TRUE
    /\ lexicon \in [{TokA} -> Tags]
    /\ tok_ret = "pending"
    /\ IdleRules
    /\ pre_tokens_lines = <<>>
    /\ tokens = <<>> /\ word_freq = <<>> /\ original_lines = <<>>
    /\ window_mode = "sliding" /\ window_size = 0
    /\ collapse_consecutive = FALSE /\ dedup_pairs_per_line = FALSE
    /\ self_loop_mode = "remove" /\ edge_count = 0 /\ min_cooc = 0
    /\ cooc_pairs = <<>> /\ cooc_count = <<>>
    /\ G = [nodes |-> <<>>, weight |-> <<>>] /\ npc = "idle" /\ ret = "pending"
    /\ pos_cache = <<>> /\ edit_area = <<>>
    /\ merged_lines = <<>> /\ filtered_tokens = <<>>
    /\ fpc = "edit"

\* what no word-editing handler assigns
editFixed == <<impl, cooc_table, mergeVars, netRest, merged_lines, filtered_tokens, fpc, mecab,
               lexicon, ruleVars>>

\* the analysis state refresh_word_list assigns
editStored == <<tokens, word_freq, pos_cache, original_lines>>

\* the user replaces the text of the input area
EnterText ==
    /\ fpc = "edit"
    /\ \E t \in EditTexts : text' = t
    /\ UNCHANGED <<editFixed, editStored, pre_tokens_lines, stop_words, edit_area, tok_ret>>

\* the user types in the edit area
TypeEditArea ==
    /\ fpc = "edit"
    /\ \E e \in EditAreaInputs : edit_area' = e
    /\ UNCHANGED <<editFixed, editStored, pre_tokens_lines, stop_words, text, tok_ret>>

\* refresh_word_list as the command of its button
RefreshWordListButton ==
    /\ fpc = "edit"
    /\ RefreshWordList(edit_area)
    /\ UNCHANGED <<editFixed, pre_tokens_lines, stop_words, text, edit_area, tok_ret>>

\* add_stop_word, with its call of apply_stop_words; an empty entry returns
AddStopWord ==
    /\ fpc = "edit"
    /\ \E word \in {<<>>} \cup FilterTokens :
          IF word = <<>>
          THEN UNCHANGED <<stop_words, edit_area, editStored>>
          ELSE /\ stop_words' = stop_words \cup {word}
               /\ StopWordsApplied(stop_words')
    /\ UNCHANGED <<editFixed, pre_tokens_lines, text, tok_ret>>

\* remove_selected_stop_word, with its call of apply_stop_words; without a
\* selection it returns
RemoveSelectedStopWord ==
    /\ fpc = "edit"
    /\ \/ UNCHANGED <<stop_words, edit_area, editStored>>
       \/ \E word \in stop_words :
             /\ stop_words' = stop_words \ {word}
             /\ StopWordsApplied(stop_words')
    /\ UNCHANGED <<editFixed, pre_tokens_lines, text, tok_ret>>

\* delete_selected_word: the selected word of the word list is taken out of
\* the edit area
DeleteSelectedWord ==
    /\ fpc = "edit"
    /\ \E word \in DOMAIN word_freq :
          /\ edit_area' = Join(SelectSeq(Split(edit_area), LAMBDA w : w # word))
          /\ RefreshWordList(edit_area')
    /\ UNCHANGED <<editFixed, pre_tokens_lines, stop_words, text, tok_ret>>

\* replace_word; an empty "from" entry returns
ReplaceWord ==
    /\ fpc = "edit"
    /\ \E from_word \in ReplaceFromEntries, to_word \in ReplaceToEntries :
          IF from_word = <<>>
          THEN UNCHANGED <<edit_area, editStored>>
          ELSE LET words == Split(edit_area)
               IN /\ edit_area' =
                        Join([k \in 1..Len(words) |->
                                 IF words[k] = from_word THEN to_word ELSE words[k]])
                  /\ Len(Split(edit_area')) <= MaxEditToks
                  /\ RefreshWordList(edit_area')
    /\ UNCHANGED <<editFixed, pre_tokens_lines, stop_words, text, tok_ret>>

\* [t for t, p in zip(tokens, pos_cache) if p in selected_pos]
RECURSIVE KeepByPos(_, _, _)
KeepByPos(toks, tags, selected_pos) ==
    IF toks = <<>> \/ tags = <<>> THEN <<>>
    ELSE (IF tags[1] \in selected_pos THEN <<toks[1]>> ELSE <<>>)
             \o KeepByPos(Tail(toks), Tail(tags), selected_pos)

\* delete_by_pos and the perform_keep of its dialogue: the tags of pos_cache
\* are listed, the user selects some, the tokens with a selected tag are kept
PerformKeep ==
    /\ fpc = "edit"
    /\ tokens # <<>> /\ pos_cache # <<>>
    /\ \E selected_pos \in SUBSET {pos_cache[k] : k \in 1..Len(pos_cache)} :
          /\ selected_pos # {}
          /\ edit_area' = Join(KeepByPos(tokens, pos_cache, selected_pos))
          /\ RefreshWordList(edit_area')
    /\ UNCHANGED <<editFixed, pre_tokens_lines, stop_words, text, tok_ret>>

NextEdit ==
    \/ EnterText \/ TypeEditArea \/ GuiTokenizeText \/ RefreshWordListButton
    \/ AddStopWord \/ RemoveSelectedStopWord \/ ApplyStopWords
    \/ DeleteSelectedWord \/ ReplaceWord \/ PerformKeep
    \/ ApplyMergeRulesAndUpdateEditArea

SpecEdit == InitEdit /\ [][NextEdit]_vars

----------------------------------------------------------------------------
(* The stored analysis state under the word-editing handlers (C24)         *)

\* the tag of a word looked up on its own
SingleWordTag(word) ==
    IF ~mecab THEN ""
    ELSE IF \E w \in DOMAIN lexicon : w = word THEN lexicon[word] ELSE "N"

\* C24: after every handler of the GUI (tokenize_text, refresh_word_list,
\* add_stop_word, remove_selected_stop_word, apply_stop_words,
\* delete_selected_word, replace_word, perform_keep,
\* apply_merge_rules_and_update_edit_area), in any order and with the user
\* typing in between, pos_cache is as long as tokens, pos_cache[k] is the
\* tag of tokens[k] looked up as a single word, and word_freq maps exactly
\* the words of tokens to their numbers of occurrences.
C24_StoredStateConsistent ==
    /\ Len(pos_cache) = Len(tokens)
    /\ \A k \in 1..Len(tokens) : pos_cache[k] = SingleWordTag(tokens[k])
    /\ DOMAIN word_freq = {tokens[k] : k \in 1..Len(tokens)}
    /\ \A t \in DOMAIN word_freq :
          word_freq[t] = Cardinality({k \in 1..Len(tokens) : tokens[k] = t})

\* C24 witness: the text [A] / [S, A] has been tokenized and the rule
\* (S, A) -> X applied to its lines, and of the result [A, X] the
\* user has replaced A by "A S": the tokens are [A, S, X].
C24_Witness ==
    /\ fpc = "edit"
    /\ tokens = <<TokA, TokS, TokX>>
    /\ pos_cache = <<"V", "N", "N">>
    /\ word_freq = [t \in {TokA, TokS, TokX} |-> 1]

----------------------------------------------------------------------------
(* Order of the lines in line mode (C25)                                   *)

\* a count table as the set of its <<pair, count>> entries
TableEntries(items) == {items[k] : k \in 1..Len(items)}

\* the count table line mode computes for the lines, given as pre-tokens
\* (pre = TRUE) or as the joined lines of original_lines
LineModeTable(lines, pre) ==
    FilterMinCooc(
        CounterOf(IF pre
                  THEN PreLinePairs(impl, lines, word_freq, window_size,
                                    collapse_consecutive, dedup_pairs_per_line)
                  ELSE FallbackLinePairs(impl, lines, word_freq, window_size,
                                         collapse_consecutive, dedup_pairs_per_line)),
        min_cooc)

\* C25: in line mode the table of pair counts does not depend on the order
\* of the input lines: for every rearrangement of the lines, with and
\* without per-line deduplication and collapsing, the same pairs are counted
\* the same number of times as in the table computed.
C25_LineOrderIrrelevant ==
    (npc = "build" /\ window_mode = "line") =>
        IF pre_tokens_lines # <<>>
        THEN \A p \in Rearrangements(pre_tokens_lines) :
                TableEntries(LineModeTable(p, TRUE)) = TableEntries(cooc_count)
        ELSE \A p \in Rearrangements(original_lines) :
                TableEntries(LineModeTable(p, FALSE)) = TableEntries(cooc_count)

\* C25 witness: the lines [A,B], [A,A] have been counted, (A,B) first; with
\* the lines swapped (A,A) would be counted first.
C25_Witness ==
    /\ npc = "build" /\ window_mode = "line" /\ ~collapse_consecutive
    /\ pre_tokens_lines = << <<TokA, TokB>>, <<TokA, TokA>> >>
    /\ cooc_count = << <<<<TokA, TokB>>, 1>>, <<<<TokA, TokA>>, 1>> >>

----------------------------------------------------------------------------
(* The last gate under selfLoopPolicy = remove (C26)                        *)

\* C26: under selfLoopPolicy = remove the gate "fewer than 2 nodes" never
\* fires: a built graph with a node has an edge between two different nodes,
\* its largest component has one, and pruning keeps the heaviest edge, so
\* after component selection and after pruning the graph has at least 2
\* nodes; a builder that ends at the last gate runs under keep.
C26_LastGateNeedsKeep ==
    /\ []((self_loop_mode = "remove" /\ npc \in {"component", "pruned", "drawn"})
            => Cardinality(NodeSet(G)) >= 2)
    /\ [][ (npc = "pruned" /\ npc' = "returned") => self_loop_mode = "keep" ]_vars

\* C26 witness: under remove the counts {(A,B): 10, (B,C): 1} gave the path
\* A - B - C; pruning has dropped the weak edge B-C and with it the node C,
\* and the graph of the two nodes that are left has passed the last gate.
C26_Witness ==
    /\ self_loop_mode = "remove" /\ npc = "drawn"
    /\ PairOccurrences({TokA, TokB}) = 10 /\ PairOccurrences({TokB, TokC}) = 1
    /\ Len(cooc_pairs) = 11 /\ edge_count = 2
    /\ NodeSet(G) = {TokA, TokB}
    /\ EdgeSet(G) = {{TokA, TokB}}

----------------------------------------------------------------------------
(* The two branches of line mode (C27)                                     *)

\* the two pair lists hold the same pairs the same number of times
SamePairs(ps, qs) ==
    /\ Len(ps) = Len(qs)
    /\ \A k \in 1..Len(ps) : Occ(ps, ps[k]) = Occ(qs, ps[k])

\* the pairs the other branch of line mode extracts for the lines of the
\* call: for pre-tokens, the original_lines branch on the lines joined by
\* blanks; for original_lines, the pre-tokens branch on the lines split
OtherBranchPairs ==
    IF pre_tokens_lines # <<>>
    THEN FallbackLinePairs(impl, [k \in 1..Len(pre_tokens_lines) |-> Join(pre_tokens_lines[k])],
                           word_freq, window_size, collapse_consecutive,
                           dedup_pairs_per_line)
    ELSE PreLinePairs(impl, [k \in 1..Len(original_lines) |-> Split(original_lines[k])],
                      word_freq, window_size, collapse_consecutive, dedup_pairs_per_line)

\* C27: the two branches of line mode are equivalent: for the same lines,
\* given as pre_tokens_lines or joined by blanks as original_lines, and the
\* same vocabulary, collapse and dedup settings, they extract the same
\* multiset of pairs.
C27_LineBranchesAgree ==
    (npc = "count" /\ window_mode = "line") => SamePairs(cooc_pairs, OtherBranchPairs)

----------------------------------------------------------------------------
(* The graph as a function of the counts (C28)                             *)

\* the pair list read backwards: the same pairs the same number of times,
\* first seen in another order
Reversed(pairs) == [k \in 1..Len(pairs) |-> pairs[Len(pairs) + 1 - k]]

\* the graph the builder constructs for the pair list, and what component
\* selection and pruning leave of it (the empty graph when it has no node)
BuiltGraphOf(pairs) ==
    AddTopEdges(EmptyGraph, MostCommon(FilterMinCooc(CounterOf(pairs), min_cooc), edge_count),
                self_loop_mode, min_cooc)

PrunedGraphOf(pairs) ==
    LET built == BuiltGraphOf(pairs)
    IN IF Len(built.nodes) = 0 THEN built
       ELSE PruneWeakEdges(KeepLargestComponent(built))

\* the two graphs have the same nodes and the same weighted edges
SameGraph(g, h) == NodeSet(g) = NodeSet(h) /\ g.weight = h.weight

\* C28: the graph is a function of the counts of the pairs and of the
\* parameters: a pair list with the same counts in which the pairs are first
\* seen in another order (here the list read backwards) gives the same nodes
\* and the same weighted edges, as constructed and after component
\* selection and pruning.
C28_GraphFromCountsAlone ==
    /\ npc = "built" => SameGraph(G, BuiltGraphOf(Reversed(cooc_pairs)))
    /\ npc = "pruned" => SameGraph(G, PrunedGraphOf(Reversed(cooc_pairs)))

----------------------------------------------------------------------------
(* The network and the co-occurrence table of the GUI (C29)                *)

TableTokens == {TokA, TokB, TokC}

\* most words of the edit area drawn for the network and the table
MaxTableToks == 5

\* min_freq_var as the widget is built
DefaultMinFreq == 2

\* net_edge_count_var, small enough to be drawn
TableEdgeCount == 3

\* A one-line text has been tokenized without stop words: the edit area
\* holds its surfaces, pre_tokens_lines the line.  The window settings are
\* drawn.
InitTable ==
    /\ IdleTable /\ IdleMerge /\ IdleRules
    /\ impl = "gui"
    /\ \E line \in SeqsUpTo(TableTokens, MaxTableToks) :
          /\ tokens = line
          /\ edit_area = Join(line)
          /\ pre_tokens_lines = IF line = <<>> THEN <<>> ELSE <<line>>
          /\ original_lines = IF line = <<>> THEN <<>> ELSE <<Join(line)>>
          /\ word_freq = WordFreq(line)
          /\ pos_cache = [k \in 1..Len(line) |-> "N"]
    /\ window_mode \in {"sliding", "line"}
    /\ window_size = MaxWindow
    /\ collapse_consecutive \in BOOLEAN
    /\ dedup_pairs_per_line = FALSE
    /\ self_loop_mode \in {"remove", "keep"}
    /\ edge_count = TableEdgeCount
    /\ min_cooc = 1
    /\ cooc_pairs = <<>> /\ cooc_count = <<>>
    /\ G = EmptyGraph /\ npc = "idle" /\ ret = "pending"
    /\ text = [blank |-> TRUE, lines |-> << <<>> >>] /\ stop_words = {}
    /\ merged_lines = <<>> /\ filtered_tokens = <<>>
    /\ mecab = TRUE /\ lexicon = <<>> /\ tok_ret = "pending"
    /\ fpc = "table"

\* JapaneseTextAnalyzer.on_generate_network and generate_network up to the
\* end of the pair extraction, in either window mode (the steps that follow
\* are those of the graph builder)
OnGenerateNetwork ==
    /\ impl = "gui" /\ fpc = "table" /\ npc = "idle"
    /\ LET edited == Strip(edit_area)
           toks   == Split(edited)
           wf     == FilteredFreq(WordFreq(toks), DefaultMinFreq)
       IN IF edited = <<>>
          THEN /\ ret' = "warning:no words"
               /\ npc' = "returned"
               /\ UNCHANGED cooc_pairs
          ELSE IF DOMAIN wf = {}
          THEN /\ ret' = "warning:no frequent words"
               /\ npc' = "returned"
               /\ UNCHANGED cooc_pairs
          ELSE /\ cooc_pairs' =
                     IF window_mode = "sliding"
                     THEN SlidingPairs("gui", toks, wf, window_size, collapse_consecutive)
                     ELSE IF pre_tokens_lines # <<>>
                     THEN PreLinePairs("gui", pre_tokens_lines, wf, window_size,
                                       collapse_consecutive, dedup_pairs_per_line)
                     ELSE FallbackLinePairs("gui", original_lines, wf, window_size,
                                            collapse_consecutive, dedup_pairs_per_line)
               /\ npc' = "count"
               /\ UNCHANGED ret
    /\ UNCHANGED <<impl, cooc_table, mergeVars, netArgs, cooc_count, G, filterVars, ruleVars>>

\* the pairs show_cooccurrence_table extracts.  Its sliding loops and its
\* original_lines loops make no vocabulary test: they are the loops of
\* generate_network run with a vocabulary that holds every word they meet.
\* Its pre_tokens_lines branch filters by Counter(tokens) of the edit area.
TablePairs(toks) ==
    IF window_mode = "sliding"
    THEN SlidingPairs("gui", toks, WordFreq(toks), window_size, collapse_consecutive)
    ELSE IF pre_tokens_lines # <<>>
    THEN PreLinePairs("gui", pre_tokens_lines, WordFreq(toks), window_size,
                      collapse_consecutive, dedup_pairs_per_line)
    ELSE FallbackLinePairs("gui", original_lines, WordFreq(Split(Join(original_lines))),
                           window_size, collapse_consecutive, dedup_pairs_per_line)

\* items = [(p[0], p[1], c) for p, c in cooc_count.items() if c >= min_cooc]
TableItems(pairs) ==
    LET kept == FilterMinCooc(CounterOf(pairs), min_cooc)
    IN [k \in 1..Len(kept) |-> <<kept[k][1][1], kept[k][1][2], kept[k][2]>>]

\* JapaneseTextAnalyzer.show_cooccurrence_table: the rows it lists, none
\* when it shows a label (no words, fewer than 2 words, no pair, no pair
\* that reaches min_cooc)
ShowCooccurrenceTable ==
    /\ impl = "gui" /\ fpc = "table" /\ ~cooc_table.shown
    /\ LET edited == Strip(edit_area)
           toks   == Split(edited)
       IN cooc_table' =
             [shown |-> TRUE,
              items |-> IF edited = <<>> \/ Len(toks) < 2 \/ TablePairs(toks) = <<>>
                        THEN <<>>
                        ELSE TableItems(TablePairs(toks))]
    /\ UNCHANGED <<impl, mergeVars, netVars, filterVars, ruleVars>>

NextTable ==
    \/ ShowCooccurrenceTable \/ OnGenerateNetwork
    \/ CountPairs \/ GuiReturnNoData \/ BuildGraph \/ ReturnNoNodes
    \/ SelectComponent \/ PruneEdges \/ ReturnTooSmall \/ DrawGraph

SpecTable == InitTable /\ [][NextTable]_vars

\* the table lists the pair with end points e with the count c
Listed(e, c) ==
    \E k \in 1..Len(cooc_table.items) :
        /\ {cooc_table.items[k][1], cooc_table.items[k][2]} = e
        /\ cooc_table.items[k][3] = c

\* C29: for the same edit area and settings, every edge of the network that
\* generate_network builds with the words of at least min-frequency
\* occurrences has as weight the count show_cooccurrence_table lists for
\* its pair.
C29_EdgeWeightIsTableCount ==
    (cooc_table.shown /\ npc \in {"built", "component", "pruned", "drawn"})
        => \A e \in EdgeSet(G) : Listed(e, G.weight[e])

----------------------------------------------------------------------------
(* The stored state after a failed tokenize_text (C30)                     *)

\* C30: a call of the GUI's tokenize_text that ends in a failure (no
\* analyzer, no text, no surfaces for the whole text) leaves tokens,
\* pos_cache, word_freq, pre_tokens_lines and original_lines exactly as
\* they were before the call.
C30_FailureLeavesState ==
    [][ (GuiTokenizeText /\ ReportsFailure')
            => UNCHANGED <<tokens, pos_cache, word_freq, pre_tokens_lines,
                           original_lines>> ]_vars

====
